---- MODULE Spec2Model ----
(***************************************************************************)
(* A model of traffics, a user-space L4 port forwarder.                    *)
(*                                                                         *)
(* Part I   - the UDP flow tracker: the receive loop of each bind calling  *)
(*            TrafficHandler.PacketHandler, the per-flow newUdpLoop and    *)
(*            Traffics.Close, over the shared udpConnTrack map.            *)
(* Part II  - DefaultDialer.DialParallel (Happy-Eyeballs) with the         *)
(*            DialSerial attempts of its two branches.                     *)
(* Part III - RawClient.exchange over the UDP socket pool.                 *)
(* Part IV  - CachedResolver.Lookup over its cache and the two queries.    *)
(* Part V   - SystemResolver.Lookup.                                       *)
(* Part VI  - startup: NewTraffics, Traffics.Start with initDialer,        *)
(*            initListener and ListenManager.StartAll, Listener.Start.     *)
(* Part VII - the loops of a started Listener: loopTcp, loopUdpIn,         *)
(*            loopUdpInOOb, and Listener.Close.                            *)
(* Part VIII- one call of DefaultDialer.DialSerial with its connects.      *)
(* Part IX  - the functions of the configuration and of the resolver       *)
(*            client that take a value and return one: ParseNetwork and    *)
(*            Network.String, ParseProtocol, the read deadline of          *)
(*            RawClient.exchange, the making of a BindConfig.              *)
(* Part X   - the process: main from its flags to its exit code.           *)
(* Part XI  - the datagrams of one client through PacketHandler and        *)
(*            newUdpLoop over the one flow map of two binds.               *)
(* Part XII - the connections loopTcp accepts through ConnHandler.         *)
(* Part XIII- RawClient: the answers read from a pooled socket, and many   *)
(*            exchanges at once.                                           *)
(* Part XIV - DefaultDialer.DialContext: Lookup, then DialParallel.        *)
(***************************************************************************)
EXTENDS Integers, Sequences, FiniteSets, TLC

\* ------------------------------------------------------------------------
\* Bounds of the model
\* ------------------------------------------------------------------------
MaxSock == 3
MaxAddrs == 2
UdpTtl == 1

Binds == {"b1", "b2"}
Clients == {"c1"}
Socks == 1..MaxSock
NoConn == 0

VARIABLES
    ctxDone,        \* Traffics.ctx is cancelled
    spc,            \* position of Traffics.Close
    lisClosed,      \* binds whose listening UDP socket is closed
    rangeTodo,      \* keys udpConnTrack.Range has not visited yet
    udpConnTrack,   \* sync.Map: client endpoint -> upstream socket
    conns,          \* upstream UDP sockets and their newUdpLoop
    nconn,          \* upstream sockets dialed so far
    hpc,            \* per bind: position of the packet handler
    hcli            \* per bind: client of the datagram being handled

udpVars == <<ctxDone, spc, lisClosed, rangeTodo, udpConnTrack, conns,
             nconn, hpc, hcli>>

VARIABLES
    network,        \* DialParallel: the network argument
    ipv4,           \* DialParallel: the A addresses
    ipv6,           \* DialParallel: the AAAA addresses
    parentDone,     \* the caller's ctx is cancelled
    cancelled,      \* cancel() of dialCtx was called
    mpc,            \* position of DialParallel
    ret,            \* what DialParallel returned
    timer,          \* ipv4Timer
    ipv4Started,
    resultsReceived,
    resultChan,     \* chan dialResult, capacity 2
    sp,             \* the DialSerial call of DialParallel and of each branch
    connState,      \* the connection each DialSerial call established
    attempts,       \* connect attempts made: who, address, sub-dialer
    v4Starts,       \* goroutines started for the IPv4 attempt
    v6Early         \* the IPv6 attempt connected while ipv4Timer was running

dialVars == <<network, ipv4, ipv6, parentDone, cancelled, mpc, ret, timer,
              ipv4Started, resultsReceived, resultChan, sp, connState,
              attempts, v4Starts, v6Early>>

VARIABLES
    conns_,         \* RawClient.conns: chan net.Conn of idle sockets
    connCount,      \* RawClient.connCount
    socks,          \* the UDP sockets dialed to the DNS destination
    nsock,          \* sockets dialed so far
    xs,             \* the exchange calls
    nexch           \* exchange calls started so far

poolVars == <<conns_, connCount, socks, nsock, xs, nexch>>

VARIABLES
    cache,          \* CachedResolver.cache: the entry stored under the FQDN
    clock,          \* time.Now(), in seconds
    lk,             \* the CachedResolver.Lookup call
    qs,             \* the A and the AAAA query of the task group
    nlook           \* Lookup calls made so far

cacheVars == <<cache, clock, lk, qs, nlook>>

VARIABLES
    sysIn,          \* SystemResolver.Lookup: the strategy and what the host
                    \* lookup answers
    sysOut          \* SystemResolver.Lookup: what it returned

sysVars == <<sysIn, sysOut>>

VARIABLES
    config,         \* Traffics.config: the remotes and the binds
    nameToDialer,   \* Traffics.nameToDialer: remote name -> its dialer
    listeners,      \* ListenManager.listeners
    tpc,            \* where main is: before NewTraffics, inside Start, after
    startNext,      \* StartAll: the index of the listener to start next
    startErr        \* the calls of Traffics.Start that returned an error

supVars == <<config, nameToDialer, listeners, tpc, startNext, startErr>>

VARIABLES
    lis             \* a started Listener: its context, its sockets, its loops
                    \* and what they logged and handled

lisVars == <<lis>>

VARIABLES
    ser             \* a call of DialSerial: its arguments, its locals, the
                    \* connects it made and what it returned

serVars == <<ser>>

VARIABLES
    fn              \* a call of one of the functions of Part IX: which one,
                    \* its argument and what it returned

fnVars == <<fn>>

VARIABLES
    proc            \* the process: where main is, what it read from its
                    \* flags and its config file, and its exit code

procVars == <<proc>>

VARIABLES
    fwd             \* the datagrams of one client through the flow map: what each
                    \* bind received, what each upstream socket was written and read

fwdVars == <<fwd>>

vars == <<udpVars, dialVars, poolVars, cacheVars, sysVars, supVars, lisVars,
          serVars, fnVars, procVars, fwdVars>>

\* what the actions of one part leave alone
notUdp == <<dialVars, poolVars, cacheVars, sysVars, supVars, lisVars, serVars,
            fnVars, procVars, fwdVars>>
notDial == <<udpVars, poolVars, cacheVars, sysVars, supVars, lisVars, serVars,
             fnVars, procVars, fwdVars>>
notPool == <<udpVars, dialVars, cacheVars, sysVars, supVars, lisVars, serVars,
             fnVars, procVars, fwdVars>>
notCache == <<udpVars, dialVars, poolVars, sysVars, supVars, lisVars, serVars,
              fnVars, procVars, fwdVars>>
notSys == <<udpVars, dialVars, poolVars, cacheVars, supVars, lisVars, serVars,
            fnVars, procVars, fwdVars>>
notSup == <<udpVars, dialVars, poolVars, cacheVars, sysVars, lisVars, serVars,
            fnVars, procVars, fwdVars>>
notLis == <<udpVars, dialVars, poolVars, cacheVars, sysVars, supVars, serVars,
            fnVars, procVars, fwdVars>>
notSer == <<udpVars, dialVars, poolVars, cacheVars, sysVars, supVars, lisVars,
            fnVars, procVars, fwdVars>>
notFn == <<udpVars, dialVars, poolVars, cacheVars, sysVars, supVars, lisVars,
           serVars, procVars, fwdVars>>
notProc == <<udpVars, dialVars, poolVars, cacheVars, sysVars, supVars,
             lisVars, serVars, fnVars, fwdVars>>
notFwd == <<udpVars, dialVars, poolVars, cacheVars, sysVars, supVars, lisVars,
            serVars, fnVars, procVars>>

\* ------------------------------------------------------------------------
\* Part I - UDP flow tracker
\* ------------------------------------------------------------------------
FreshConn ==
    [bind |-> "none", client |-> "none", open |-> FALSE, pc |-> "unused",
     deadline |-> 0, err |-> "none"]

InitUdp ==
    /\ ctxDone = FALSE
    /\ spc = "running"
    /\ lisClosed = {}
    /\ rangeTodo = {}
    /\ udpConnTrack = [c \in Clients |-> NoConn]
    /\ conns = [s \in Socks |-> FreshConn]
    /\ nconn = 0
    /\ hpc = [b \in Binds |-> "idle"]
    /\ hcli = [b \in Binds |-> "none"]

\* Time is kept relative to the current instant: conns[s].deadline is the
\* time left until the read deadline of s while its loop is reading (0 when
\* it is not), and Tick lets one unit pass.
\* proxyConn.SetReadDeadline(time.Now().Add(config.UDPKeepaliveTTL)) leaves
\* UDPKeepaliveTTL to go, whatever was left (left) of the deadline before.
ReadDeadline_Keep(left) == left
ReadDeadline(left) == UdpTtl

\* What proxyConn.Read can return: a closed socket and an expired deadline are
\* found before the socket is read.
ReadOutcomes(s) ==
    IF ~conns[s].open THEN {"closed"}
    ELSE IF conns[s].deadline = 0 THEN {"timeout"}
    ELSE {"data", "zero", "refused", "other"}

\* Where newUdpLoop goes after Read returned: "read" is the label again,
\* "arm" the top of the for loop (for a datagram, after pw.WritePacket),
\* "delete" the deferred function.
AfterRead_Continue(e) ==
    CASE e = "refused" -> "arm"
      [] e = "data" -> "arm"
      [] e = "zero" -> "arm"
      [] OTHER -> "delete"
AfterRead(e) ==
    CASE e = "refused" -> "read"
      [] e = "data" -> "arm"
      [] e = "zero" -> "arm"
      [] OTHER -> "delete"

\* loopUdpIn receives a datagram of client c on bind b and calls the packet
\* handler. Hit: conn.Write(p) on the tracked socket. Miss: DialContext with
\* t.ctx, which returns at once when the context is cancelled.
HandlePacket(b, c) ==
    /\ hpc[b] = "idle"
    /\ b \notin lisClosed
    /\ IF udpConnTrack[c] # NoConn \/ ctxDone
         THEN UNCHANGED <<hpc, hcli>>
         ELSE /\ hpc' = [hpc EXCEPT ![b] = "connect"]
              /\ hcli' = [hcli EXCEPT ![b] = c]
    /\ UNCHANGED <<ctxDone, spc, lisClosed, rangeTodo, udpConnTrack,
                   conns, nconn>>
    /\ UNCHANGED notUdp

\* the dial returned an error: logged, the datagram is dropped
DialFail(b) ==
    /\ hpc[b] = "connect"
    /\ hpc' = [hpc EXCEPT ![b] = "idle"]
    /\ hcli' = [hcli EXCEPT ![b] = "none"]
    /\ UNCHANGED <<ctxDone, spc, lisClosed, rangeTodo, udpConnTrack,
                   conns, nconn>>
    /\ UNCHANGED notUdp

\* the dial succeeded: t.udpConnTrack.Store(remote, udpConn);
\* go t.newUdpLoop(...); udpConn.Write(p)
DialStore(b) ==
    /\ hpc[b] = "connect"
    /\ nconn < MaxSock
    /\ LET s == nconn + 1 IN
        /\ nconn' = s
        /\ conns' = [conns EXCEPT ![s] =
                        [bind |-> b, client |-> hcli[b], open |-> TRUE,
                         pc |-> "arm", deadline |-> 0, err |-> "none"]]
        /\ udpConnTrack' = [udpConnTrack EXCEPT ![hcli[b]] = s]
    /\ hpc' = [hpc EXCEPT ![b] = "idle"]
    /\ hcli' = [hcli EXCEPT ![b] = "none"]
    /\ UNCHANGED <<ctxDone, spc, lisClosed, rangeTodo>>
    /\ UNCHANGED notUdp

\* newUdpLoop: top of the for loop.
SetReadDeadline(s) ==
    /\ conns[s].pc = "arm"
    /\ conns' = [conns EXCEPT ![s].deadline = ReadDeadline(conns[s].deadline),
                              ![s].err = "none",
                              ![s].pc = "read"]
    /\ UNCHANGED <<ctxDone, spc, lisClosed, rangeTodo, udpConnTrack,
                   nconn, hpc, hcli>>
    /\ UNCHANGED notUdp

\* again: read, err := proxyConn.Read(readBuf), and the branches on err/read;
\* a datagram read is handed to pw.WritePacket before the loop goes round
Read(s) ==
    /\ conns[s].pc = "read"
    /\ \E r \in ReadOutcomes(s) :
          conns' = [conns EXCEPT
                      ![s].err = IF r \in {"data", "zero"} THEN "none" ELSE r,
                      ![s].deadline = IF AfterRead(r) = "read" THEN @ ELSE 0,
                      ![s].pc = AfterRead(r)]
    /\ UNCHANGED <<ctxDone, spc, lisClosed, rangeTodo, udpConnTrack,
                   nconn, hpc, hcli>>
    /\ UNCHANGED notUdp

\* The deferred function of newUdpLoop: t.udpConnTrack.Delete(client);
\* proxyConn.Close(). Once the key is deleted no other goroutine reaches the
\* socket, so the two calls are one step.
LoopExit(s) ==
    /\ conns[s].pc = "delete"
    /\ udpConnTrack' = [udpConnTrack EXCEPT ![conns[s].client] = NoConn]
    /\ conns' = [conns EXCEPT ![s].open = FALSE, ![s].pc = "done"]
    /\ UNCHANGED <<ctxDone, spc, lisClosed, rangeTodo, nconn, hpc, hcli>>
    /\ UNCHANGED notUdp

\* One unit of time passes.
Tick ==
    /\ \E s \in Socks : conns[s].deadline > 0
    /\ conns' = [s \in Socks |->
                    [conns[s] EXCEPT !.deadline = IF @ > 0 THEN @ - 1 ELSE 0]]
    /\ UNCHANGED <<ctxDone, spc, lisClosed, rangeTodo, udpConnTrack,
                   nconn, hpc, hcli>>
    /\ UNCHANGED notUdp

\* Traffics.Close: t.cancel(); t.listeners.CloseAll(). Once the context is
\* cancelled a handler that misses dials nothing and one that hits changes
\* nothing, so closing the listeners is taken in the same step.
CloseListeners ==
    /\ spc = "running"
    /\ ctxDone' = TRUE
    /\ lisClosed' = Binds
    /\ spc' = "range"
    /\ rangeTodo' = Clients
    /\ UNCHANGED <<udpConnTrack, conns, nconn, hpc, hcli>>
    /\ UNCHANGED notUdp

\* Traffics.Close: t.udpConnTrack.Range closing the socket stored under c
CloseRange(c) ==
    /\ spc = "range"
    /\ c \in rangeTodo
    /\ rangeTodo' = rangeTodo \ {c}
    /\ spc' = IF rangeTodo = {c} THEN "closed" ELSE "range"
    /\ conns' = IF udpConnTrack[c] # NoConn
                  THEN [conns EXCEPT ![udpConnTrack[c]].open = FALSE]
                  ELSE conns
    /\ UNCHANGED <<ctxDone, lisClosed, udpConnTrack, nconn, hpc, hcli>>
    /\ UNCHANGED notUdp

LoopStep(s) ==
    \/ SetReadDeadline(s)
    \/ Read(s)
    \/ LoopExit(s)

NextUdp ==
    \/ \E b \in Binds, c \in Clients : HandlePacket(b, c)
    \/ \E b \in Binds : DialFail(b)
    \/ \E b \in Binds : DialStore(b)
    \/ \E s \in Socks : SetReadDeadline(s)
    \/ \E s \in Socks : Read(s)
    \/ \E s \in Socks : LoopExit(s)
    \/ Tick
    \/ CloseListeners
    \/ \E c \in Clients : CloseRange(c)

\* ------------------------------------------------------------------------
\* Part II - DefaultDialer.DialSerial and DialParallel
\* ------------------------------------------------------------------------
Networks == {"tcp", "udp", "tcp4", "udp4", "tcp6", "udp6"}
Callers == {"main", "v6", "v4"}
Branches == {"v6", "v4"}

\* the NetworkVersion constants
NetworkVersion4 == 4
NetworkVersion6 == 6
NetworkVersionDual == 0

\* constant.ParseNetwork: the Network and the error it returns
ParseNetwork(n) ==
    CASE n \in {"tcp", "udp", "ip"} ->
            [Protocol |-> n, Version |-> NetworkVersionDual, err |-> "nil"]
      [] n \in {"tcp4", "udp4", "ip4"} ->
            [Protocol |-> IF Len(n) = 3 THEN "ip" ELSE SubSeq(n, 1, 3),
             Version |-> NetworkVersion4, err |-> "nil"]
      [] n \in {"tcp6", "udp6", "ip6"} ->
            [Protocol |-> IF Len(n) = 3 THEN "ip" ELSE SubSeq(n, 1, 3),
             Version |-> NetworkVersion6, err |-> "nil"]
      [] OTHER ->
            [Protocol |-> "", Version |-> 0, err |-> "ErrInvalidNetwork"]

\* filterAddressByNetwork; an address is its family, "4" or "6"
filterAddressByNetwork(nn, addr) ==
    CASE nn.Version = 0 -> addr
      [] nn.Version = 4 -> SelectSeq(addr, LAMBDA a : a = "4")
      [] nn.Version = 6 -> SelectSeq(addr, LAMBDA a : a = "6")

\* DialSerial: the sub-dialer chosen for an address (the switch on
\* addr.Is4() / addr.Is6()): 4 is udpDialer4 / dialer4, which carry
\* BindAddress4; 6 would be udpDialer6 / dialer6, which carry BindAddress6.
SubDialer(a) ==
    CASE a = "4" -> "4"
      [] a = "6" -> "4"

\* case <-ipv4Timer.C: if !ipv4Started
TimerStartsV4(started) == ~started

\* case result := <-resultChan: if !ipv4Started && resultsReceived == 1
ResultStartsV4_NoFlag(started, received) == received = 1
ResultStartsV4(started, received) == ~started /\ received = 1

\* case result := <-resultChan: if result.err == nil { cancel(); return }
ResultReturns_Inverted(isErr) == isErr
ResultReturns(isErr) == ~isErr

\* for resultsReceived < 2
LoopContinues_One(received) == received < 1
LoopContinues(received) == received < 2

\* the addresses a DialSerial call is given
ListOf(p) ==
    CASE p = "v6" -> ipv6
      [] p = "v4" -> ipv4
      [] p = "main" -> IF Len(ipv4) = 0 THEN ipv6 ELSE ipv4

Avail(p) == filterAddressByNetwork(ParseNetwork(network), ListOf(p))

\* the context a DialSerial call is given: ctx for DialParallel's own call,
\* dialCtx for the branches
DialCtxDone == parentDone \/ cancelled
CtxDone(p) == IF p = "main" THEN parentDone ELSE DialCtxDone

IdleCall == [pc |-> "idle", idx |-> 0, res |-> "none"]

\* DialSerial up to its for loop: no addresses, or none left by the filter,
\* is an error
SerialEntry(p) ==
    IF Len(ListOf(p)) = 0 \/ Len(Avail(p)) = 0
      THEN [pc |-> "deliver", idx |-> 0, res |-> "err"]
      ELSE [pc |-> "check", idx |-> 1, res |-> "none"]

Lists(f) == UNION {[1..n -> {f}] : n \in 0..MaxAddrs}

DialNotCalled ==
    /\ parentDone = FALSE
    /\ cancelled = FALSE
    /\ mpc = "start"
    /\ ret = "none"
    /\ timer = "unset"
    /\ ipv4Started = FALSE
    /\ resultsReceived = 0
    /\ resultChan = <<>>
    /\ sp = [p \in Callers |-> IdleCall]
    /\ connState = [p \in Callers |-> "none"]
    /\ attempts = {}
    /\ v4Starts = 0
    /\ v6Early = FALSE

InitDial ==
    /\ network \in Networks
    /\ ipv4 \in Lists("4")
    /\ ipv6 \in Lists("6")
    /\ DialNotCalled

DialAtRest ==
    /\ network = "udp"
    /\ ipv4 = <<>>
    /\ ipv6 = <<>>
    /\ DialNotCalled

\* DialParallel up to its for loop: with an empty list it is DialSerial on
\* the other one; else go DialSerial(dialCtx, ipv6) and time.NewTimer(300ms)
DialParallel ==
    /\ mpc = "start"
    /\ IF Len(ipv4) = 0 \/ Len(ipv6) = 0
         THEN /\ mpc' = "serial"
              /\ sp' = [sp EXCEPT !["main"] = SerialEntry("main")]
              /\ timer' = timer
         ELSE /\ mpc' = "select"
              /\ sp' = [sp EXCEPT !["v6"] = SerialEntry("v6")]
              /\ timer' = "running"
    /\ UNCHANGED <<network, ipv4, ipv6, parentDone, cancelled, ret,
                   ipv4Started, resultsReceived, resultChan, connState,
                   attempts, v4Starts, v6Early>>
    /\ UNCHANGED notDial

\* DialSerial: top of the for loop: if common.Done(ctx) return ctx.Err();
\* else pick the sub-dialer and start the connect
SerialCheck(p) ==
    /\ sp[p].pc = "check"
    /\ IF CtxDone(p)
         THEN /\ sp' = [sp EXCEPT ![p].pc = "deliver", ![p].res = "err"]
              /\ attempts' = attempts
         ELSE /\ sp' = [sp EXCEPT ![p].pc = "dialing"]
              /\ attempts' = attempts \cup
                    {[by |-> p, addr |-> Avail(p)[sp[p].idx],
                      dialer |-> SubDialer(Avail(p)[sp[p].idx])]}
    /\ UNCHANGED <<network, ipv4, ipv6, parentDone, cancelled, mpc, ret,
                   timer, ipv4Started, resultsReceived, resultChan,
                   connState, v4Starts, v6Early>>
    /\ UNCHANGED notDial

\* DialSerial: the connect succeeded: return conn, nil
SerialConnected(p) ==
    /\ sp[p].pc = "dialing"
    /\ sp' = [sp EXCEPT ![p].pc = "deliver", ![p].res = "conn"]
    /\ connState' = [connState EXCEPT ![p] = "open"]
    /\ v6Early' = (v6Early \/ (p = "v6" /\ timer = "running"))
    /\ UNCHANGED <<network, ipv4, ipv6, parentDone, cancelled, mpc, ret,
                   timer, ipv4Started, resultsReceived, resultChan,
                   attempts, v4Starts>>
    /\ UNCHANGED notDial

\* DialSerial: the connect failed: lastErr = err, next candidate; after the
\* last one return "all addresses failed"
SerialFailed(p) ==
    /\ sp[p].pc = "dialing"
    /\ sp' = IF sp[p].idx = Len(Avail(p))
               THEN [sp EXCEPT ![p].pc = "deliver", ![p].res = "err"]
               ELSE [sp EXCEPT ![p].pc = "check", ![p].idx = @ + 1]
    /\ UNCHANGED <<network, ipv4, ipv6, parentDone, cancelled, mpc, ret,
                   timer, ipv4Started, resultsReceived, resultChan,
                   connState, attempts, v4Starts, v6Early>>
    /\ UNCHANGED notDial

\* DialParallel with an empty list: return d.DialSerial(...)
SerialReturn ==
    /\ mpc = "serial"
    /\ sp["main"].pc = "deliver"
    /\ sp' = [sp EXCEPT !["main"].pc = "exit"]
    /\ mpc' = "returned"
    /\ ret' = IF sp["main"].res = "conn" THEN "main" ELSE "serialerr"
    /\ UNCHANGED <<network, ipv4, ipv6, parentDone, cancelled, timer,
                   ipv4Started, resultsReceived, resultChan, connState,
                   attempts, v4Starts, v6Early>>
    /\ UNCHANGED notDial

\* a branch goroutine: case resultChan <- dialResult{...}
BranchSend(p) ==
    /\ p \in Branches
    /\ sp[p].pc = "deliver"
    /\ Len(resultChan) < 2
    /\ resultChan' = Append(resultChan, [from |-> p, isErr |-> sp[p].res = "err"])
    /\ sp' = [sp EXCEPT ![p].pc = "exit"]
    /\ UNCHANGED <<network, ipv4, ipv6, parentDone, cancelled, mpc, ret,
                   timer, ipv4Started, resultsReceived, connState, attempts,
                   v4Starts, v6Early>>
    /\ UNCHANGED notDial

\* a branch goroutine: case <-dialCtx.Done(): if conn != nil { conn.Close() }
BranchDrop(p) ==
    /\ p \in Branches
    /\ sp[p].pc = "deliver"
    /\ DialCtxDone
    /\ connState' = IF sp[p].res = "conn"
                      THEN [connState EXCEPT ![p] = "closed"]
                      ELSE connState
    /\ sp' = [sp EXCEPT ![p].pc = "exit"]
    /\ UNCHANGED <<network, ipv4, ipv6, parentDone, cancelled, mpc, ret,
                   timer, ipv4Started, resultsReceived, resultChan, attempts,
                   v4Starts, v6Early>>
    /\ UNCHANGED notDial

\* what the deferred ipv4Timer.Stop() and an explicit Stop() leave: a timer
\* that expired before Stop may or may not still deliver its expiry,
\* depending on the timer implementation of the build
StopTimer(tm, drained) ==
    IF tm = "running" \/ (tm = "expired" /\ drained) THEN "stopped" ELSE tm

\* select: case <-dialCtx.Done(): return nil, dialCtx.Err()
SelectDone ==
    /\ mpc = "select"
    /\ DialCtxDone
    /\ mpc' = "returned"
    /\ ret' = "ctxerr"
    /\ cancelled' = TRUE
    /\ \E drained \in BOOLEAN : timer' = StopTimer(timer, drained)
    /\ UNCHANGED <<network, ipv4, ipv6, parentDone, ipv4Started,
                   resultsReceived, resultChan, sp, connState, attempts,
                   v4Starts, v6Early>>
    /\ UNCHANGED notDial

\* select: case <-ipv4Timer.C
SelectTimer ==
    /\ mpc = "select"
    /\ timer = "expired"
    /\ timer' = "received"
    /\ IF TimerStartsV4(ipv4Started)
         THEN /\ ipv4Started' = TRUE
              /\ sp' = [sp EXCEPT !["v4"] = SerialEntry("v4")]
              /\ v4Starts' = v4Starts + 1
         ELSE UNCHANGED <<ipv4Started, sp, v4Starts>>
    /\ UNCHANGED <<network, ipv4, ipv6, parentDone, cancelled, mpc, ret,
                   resultsReceived, resultChan, connState, attempts, v6Early>>
    /\ UNCHANGED notDial

\* select: case result := <-resultChan
SelectResult ==
    /\ mpc = "select"
    /\ Len(resultChan) > 0
    /\ LET result == Head(resultChan)
           received == resultsReceived + 1
       IN
        /\ resultChan' = Tail(resultChan)
        /\ resultsReceived' = received
        /\ IF ResultReturns(result.isErr)
             THEN /\ cancelled' = TRUE
                  /\ mpc' = "returned"
                  /\ ret' = result.from
                  /\ \E drained \in BOOLEAN : timer' = StopTimer(timer, drained)
                  /\ UNCHANGED <<ipv4Started, sp, v4Starts>>
             ELSE /\ IF ResultStartsV4(ipv4Started, received)
                       THEN /\ ipv4Started' = TRUE
                            /\ sp' = [sp EXCEPT !["v4"] = SerialEntry("v4")]
                            /\ v4Starts' = v4Starts + 1
                       ELSE UNCHANGED <<ipv4Started, sp, v4Starts>>
                  /\ IF LoopContinues(received)
                       THEN /\ mpc' = "select"
                            /\ ret' = ret
                            /\ cancelled' = cancelled
                            /\ \E drained \in BOOLEAN :
                                  timer' = IF ResultStartsV4(ipv4Started, received)
                                             THEN StopTimer(timer, drained)
                                             ELSE timer
                       ELSE /\ mpc' = "returned"
                            /\ ret' = "allfailed"
                            /\ cancelled' = TRUE
                            /\ \E drained \in BOOLEAN :
                                  timer' = StopTimer(timer, drained)
    /\ UNCHANGED <<network, ipv4, ipv6, parentDone, connState, attempts,
                   v6Early>>
    /\ UNCHANGED notDial

\* 300 ms have passed since time.NewTimer
TimerExpire ==
    /\ timer = "running"
    /\ timer' = "expired"
    /\ UNCHANGED <<network, ipv4, ipv6, parentDone, cancelled, mpc, ret,
                   ipv4Started, resultsReceived, resultChan, sp, connState,
                   attempts, v4Starts, v6Early>>
    /\ UNCHANGED notDial

\* the caller cancels ctx
ParentCancel ==
    /\ ~parentDone
    /\ mpc # "returned"
    /\ parentDone' = TRUE
    /\ UNCHANGED <<network, ipv4, ipv6, cancelled, mpc, ret, timer,
                   ipv4Started, resultsReceived, resultChan, sp, connState,
                   attempts, v4Starts, v6Early>>
    /\ UNCHANGED notDial

MainStep ==
    \/ DialParallel
    \/ SerialReturn
    \/ SelectDone
    \/ SelectTimer
    \/ SelectResult

CallStep(p) ==
    \/ SerialCheck(p)
    \/ SerialConnected(p)
    \/ SerialFailed(p)
    \/ BranchSend(p)
    \/ BranchDrop(p)

NextDial ==
    \/ DialParallel
    \/ SerialReturn
    \/ SelectDone
    \/ SelectTimer
    \/ SelectResult
    \/ \E p \in Callers : SerialCheck(p)
    \/ \E p \in Callers : SerialConnected(p)
    \/ \E p \in Callers : SerialFailed(p)
    \/ \E p \in Branches : BranchSend(p)
    \/ \E p \in Branches : BranchDrop(p)
    \/ TimerExpire
    \/ ParentCancel

\* ------------------------------------------------------------------------
\* Part III - RawClient: exchange over the pool of UDP sockets
\* ------------------------------------------------------------------------
maxConn == 8
MaxPoolSock == 3
MaxExch == 3

Exchangers == {"x1", "x2"}
PoolSocks == 1..MaxPoolSock

IdleExchange == [pc |-> "idle", conn |-> 0, retry |-> 0, res |-> "none",
                 ctxDeadline |-> FALSE]

InitPool ==
    /\ conns_ = <<>>
    /\ connCount = 0
    /\ socks = [k \in PoolSocks |-> "none"]
    /\ nsock = 0
    /\ xs = [q \in Exchangers |-> IdleExchange]
    /\ nexch = 0

\* RawClient.closeConn: conn.Close(); if connCount.Load() > 0 { Add(-1) }
closeConn(k) ==
    /\ socks' = [socks EXCEPT ![k] = "closed"]
    /\ connCount' = IF connCount > 0 THEN connCount - 1 ELSE connCount

\* exchange: if the context has a deadline, time.Now().After(deadline) is
\* asked of the zero time the local deadline still holds
DeadlineExceeded(ctxDeadline) == ctxDeadline

\* What a failed exchange reports once the datagram was written.
ReadFailures == {"readerr", "unpackerr", "rcode", "id", "truncated"}

\* exchange is called: a cancelled context or a Pack error returns before a
\* socket is asked for
Exchange(q, d, early) ==
    /\ xs[q].pc \in {"idle", "done"}
    /\ nexch < MaxExch
    /\ nexch' = nexch + 1
    /\ xs' = [xs EXCEPT ![q] =
                IF early = "none"
                  THEN [IdleExchange EXCEPT !.pc = "get", !.ctxDeadline = d]
                  ELSE [IdleExchange EXCEPT !.pc = "done", !.res = early,
                                            !.ctxDeadline = d]]
    /\ UNCHANGED <<conns_, connCount, socks, nsock>>
    /\ UNCHANGED notPool

\* newUdpConn: case conn := <-c.conns, and the wait <-c.conns when
\* connCount >= maxConn
TakeConn(q) ==
    /\ xs[q].pc = "get"
    /\ Len(conns_) > 0
    /\ xs' = [xs EXCEPT ![q].conn = Head(conns_), ![q].pc = "write"]
    /\ conns_' = Tail(conns_)
    /\ UNCHANGED <<connCount, socks, nsock, nexch>>
    /\ UNCHANGED notPool

\* newUdpConn: default: with connCount < maxConn, c.dialer.DialContext
DialConn(q) ==
    /\ xs[q].pc = "get"
    /\ Len(conns_) = 0
    /\ connCount < maxConn
    /\ nsock < MaxPoolSock
    /\ nsock' = nsock + 1
    /\ socks' = [socks EXCEPT ![nsock + 1] = "open"]
    /\ xs' = [xs EXCEPT ![q].conn = nsock + 1, ![q].pc = "write"]
    /\ UNCHANGED <<conns_, connCount, nexch>>
    /\ UNCHANGED notPool

\* newUdpConn: the dial failed: exchange returns the error
DialConnFail(q) ==
    /\ xs[q].pc = "get"
    /\ Len(conns_) = 0
    /\ connCount < maxConn
    /\ xs' = [xs EXCEPT ![q].pc = "done", ![q].res = "dialerr"]
    /\ UNCHANGED <<conns_, connCount, socks, nsock, nexch>>
    /\ UNCHANGED notPool

\* conn.Write(pack) succeeded: the deferred c.conns <- conn is registered,
\* then the deadline is looked at
WriteOk(q) ==
    /\ xs[q].pc = "write"
    /\ socks[xs[q].conn] = "open"
    /\ xs' = IF DeadlineExceeded(xs[q].ctxDeadline)
               THEN [xs EXCEPT ![q].pc = "ret", ![q].res = "deadline"]
               ELSE [xs EXCEPT ![q].pc = "read"]
    /\ UNCHANGED <<conns_, connCount, socks, nsock, nexch>>
    /\ UNCHANGED notPool

\* conn.Write(pack) failed or wrote nothing: closeConn; a write on a closed
\* socket is retried with another socket, any other failure is returned
WriteFail(q) ==
    /\ xs[q].pc = "write"
    /\ closeConn(xs[q].conn)
    /\ xs' = IF socks[xs[q].conn] = "closed"
               THEN [xs EXCEPT ![q].pc = "get", ![q].retry = @ + 1]
               ELSE [xs EXCEPT ![q].pc = "done", ![q].res = "writeerr"]
    /\ UNCHANGED <<conns_, nsock, nexch>>
    /\ UNCHANGED notPool

\* conn.Read and the checks of the answer
ReadAnswer(q, r) ==
    /\ xs[q].pc = "read"
    /\ xs' = [xs EXCEPT ![q].pc = "ret", ![q].res = r]
    /\ UNCHANGED <<conns_, connCount, socks, nsock, nexch>>
    /\ UNCHANGED notPool

\* the deferred func() { c.conns <- conn }(): blocks while the channel is full
ReturnConn(q) ==
    /\ xs[q].pc = "ret"
    /\ Len(conns_) < maxConn
    /\ conns_' = Append(conns_, xs[q].conn)
    /\ xs' = [xs EXCEPT ![q].pc = "done"]
    /\ UNCHANGED <<connCount, socks, nsock, nexch>>
    /\ UNCHANGED notPool

NextPool ==
    \/ \E q \in Exchangers, d \in BOOLEAN, early \in {"none", "ctxerr", "packerr"} :
          Exchange(q, d, early)
    \/ \E q \in Exchangers : TakeConn(q)
    \/ \E q \in Exchangers : DialConn(q)
    \/ \E q \in Exchangers : DialConnFail(q)
    \/ \E q \in Exchangers : WriteOk(q)
    \/ \E q \in Exchangers : WriteFail(q)
    \/ \E q \in Exchangers, r \in ReadFailures \cup {"ok"} : ReadAnswer(q, r)
    \/ \E q \in Exchangers : ReturnConn(q)

\* ------------------------------------------------------------------------
\* Part IV - CachedResolver: Lookup, load and store over the answer cache
\* ------------------------------------------------------------------------
MaxTtl == 1
MaxAnswers == 2
MaxClock == 2
MaxLook == 2

Strategies == {"default", "prefer_ipv4", "prefer_ipv6", "ipv4_only", "ipv6_only"}
QTypes == {"A", "AAAA"}

\* What c.client.Exchange and the checks on its answer can fail with.
ExchangeFailures == {"exchangeerr", "rcode", "id", "truncated"}

\* The answer section of a NOERROR response to a query of type qt: records of
\* that type, each with its TTL, and records of another type (a CNAME, whose
\* TTL store does not look at). The address of the k-th record of type qt is
\* <<qt, k>>.
Responses(qt) ==
    UNION {[1..n -> [t : {qt}, ttl : 0..MaxTtl] \cup {[t |-> "CNAME", ttl |-> 0]}] :
              n \in 0..MaxAnswers}

NoEntry == [present |-> FALSE, A |-> <<>>, AAAA |-> <<>>, expire |-> 0]

IdleLookup == [pc |-> "idle", strategy |-> "default", loaded |-> "none",
               from |-> "none", A |-> <<>>, AAAA |-> <<>>, err |-> "none"]
\* expire: the expiry store gave the answer, 0 when it stored nothing
IdleQuery == [pc |-> "off", kind |-> "none", addrs |-> <<>>, expire |-> 0,
              err |-> "none"]

InitCache ==
    /\ cache = NoEntry
    /\ clock = 0
    /\ lk = IdleLookup
    /\ qs = [t \in QTypes |-> IdleQuery]
    /\ nlook = 0

\* FilterAddress
FilterAddress(A, AAAA, strategy) ==
    CASE strategy = "ipv4_only" -> <<A, <<>> >>
      [] strategy = "ipv6_only" -> << <<>>, AAAA>>
      [] OTHER -> <<A, AAAA>>

\* randomSortAddresses: copy(copied, raw) copies into a nil slice, which has
\* no room, so for two or more addresses the shuffled slice is empty
randomSortAddresses(raw) == IF Len(raw) <= 1 THEN raw ELSE <<>>

\* the addresses of the records of type tp in an answer section
AddressesOf(answer, tp) ==
    [k \in 1..Cardinality({i \in 1..Len(answer) : answer[i].t = tp}) |-> <<tp, k>>]

\* MessageToAddresses: the A and AAAA records of the answer, in order; a
\* response to a query of one type holds no records of the other
MessageToAddresses(answer) ==
    AddressesOf(answer, "A") \o AddressesOf(answer, "AAAA")

\* store: minTTL after the records up to i, from minTTL m before them
RECURSIVE MinTTL(_, _, _)
MinTTL(answer, i, m) ==
    IF i > Len(answer) THEN m
    ELSE LET rr == answer[i]
             overrideTTL == m = 0 \/ (rr.ttl > 0 /\ rr.ttl < m)
         IN MinTTL(answer, i + 1,
                   IF rr.t \in QTypes /\ overrideTTL THEN rr.ttl ELSE m)

\* load: now.After(expire)
Stale_Never(now, expire) == FALSE
Stale(now, expire) == now > expire

\* load: what it finds for the FQDN
LoadOutcome ==
    IF ~cache.present THEN "miss"
    ELSE IF Stale(clock, cache.expire) THEN "expired"
    ELSE IF Len(cache.A) = 0 /\ Len(cache.AAAA) = 0 THEN "invalid"
    ELSE "hit"

\* store: the cache after the answer section of a response was stored
store(answer) ==
    IF MinTTL(answer, 1, 0) = 0
      THEN cache
      ELSE [present |-> TRUE,
            A |-> AddressesOf(answer, "A"),
            AAAA |-> AddressesOf(answer, "AAAA"),
            expire |-> clock + MinTTL(answer, 1, 0)]

\* the queries Lookup appends to the task group
Asked(strategy) ==
    (IF strategy # "ipv6_only" THEN {"A"} ELSE {}) \cup
    (IF strategy # "ipv4_only" THEN {"AAAA"} ELSE {})

\* Lookup up to group.Run: the empty FQDN, load, the return of a cached
\* answer that the strategy leaves something of, else the queries
Lookup(strategy, emptyFqdn) ==
    /\ lk.pc \in {"idle", "done"}
    /\ nlook < MaxLook
    /\ nlook' = nlook + 1
    /\ IF emptyFqdn
         THEN /\ lk' = [IdleLookup EXCEPT !.pc = "done", !.strategy = strategy,
                                          !.err = "emptyfqdn"]
              /\ qs' = [t \in QTypes |-> IdleQuery]
              /\ cache' = cache
         ELSE LET found == LoadOutcome
                  got == IF found = "hit"
                           THEN FilterAddress(cache.A, cache.AAAA, strategy)
                           ELSE << <<>>, <<>> >>
              IN
               /\ cache' = IF found \in {"expired", "invalid"}
                             THEN NoEntry ELSE cache
               /\ IF Len(got[1]) # 0 \/ Len(got[2]) # 0
                    THEN /\ lk' = [IdleLookup EXCEPT
                                      !.pc = "done", !.strategy = strategy,
                                      !.loaded = found, !.from = "cache",
                                      !.A = got[1], !.AAAA = got[2]]
                         /\ qs' = [t \in QTypes |-> IdleQuery]
                    ELSE /\ lk' = [IdleLookup EXCEPT
                                      !.pc = "wait", !.strategy = strategy,
                                      !.loaded = found, !.from = "upstream"]
                         /\ qs' = [t \in QTypes |->
                                     IF t \in Asked(strategy)
                                       THEN [IdleQuery EXCEPT !.pc = "query"]
                                       ELSE IdleQuery]
    /\ clock' = clock
    /\ UNCHANGED notCache

\* a task of the group: lookupToExchange failed before store
QueryFailed(t, e) ==
    /\ qs[t].pc = "query"
    /\ qs' = [qs EXCEPT ![t] = [IdleQuery EXCEPT !.pc = "done",
                                                 !.kind = "failed", !.err = e]]
    /\ UNCHANGED <<cache, clock, lk, nlook>>
    /\ UNCHANGED notCache

\* a task of the group: lookupToExchange got a NOERROR response: c.store(resp),
\* MessageToAddresses(resp), and the append of the shuffled addresses
QueryAnswered(t, answer) ==
    /\ qs[t].pc = "query"
    /\ IF Len(answer) = 0
         THEN /\ qs' = [qs EXCEPT ![t] =
                          [IdleQuery EXCEPT !.pc = "done", !.kind = "empty",
                                            !.err = "badmessage"]]
              /\ UNCHANGED <<cache, lk>>
         ELSE /\ cache' = store(answer)
              /\ qs' = [qs EXCEPT ![t] =
                          [IdleQuery EXCEPT
                              !.pc = "done", !.kind = "answers",
                              !.addrs = MessageToAddresses(answer),
                              !.expire = IF MinTTL(answer, 1, 0) = 0 THEN 0
                                         ELSE clock + MinTTL(answer, 1, 0)]]
              /\ lk' = IF t = "A"
                         THEN [lk EXCEPT !.A = @ \o randomSortAddresses(
                                             MessageToAddresses(answer))]
                         ELSE [lk EXCEPT !.AAAA = @ \o randomSortAddresses(
                                             MessageToAddresses(answer))]
    /\ UNCHANGED <<clock, nlook>>
    /\ UNCHANGED notCache

\* Lookup after group.Run: the error of a task, else the filter and the
\* check that something is left
LookupReturn ==
    /\ lk.pc = "wait"
    /\ \A t \in QTypes : qs[t].pc # "query"
    /\ LET got == FilterAddress(lk.A, lk.AAAA, lk.strategy) IN
        lk' = IF \E t \in QTypes : qs[t].err # "none"
                THEN [lk EXCEPT !.pc = "done", !.err = "grouperr",
                                !.A = <<>>, !.AAAA = <<>>]
              ELSE IF Len(got[1]) = 0 /\ Len(got[2]) = 0
                THEN [lk EXCEPT !.pc = "done", !.err = "noaddress",
                                !.A = <<>>, !.AAAA = <<>>]
              ELSE [lk EXCEPT !.pc = "done", !.A = got[1], !.AAAA = got[2]]
    /\ UNCHANGED <<cache, clock, qs, nlook>>
    /\ UNCHANGED notCache

\* one second passes
ClockTick ==
    /\ clock < MaxClock
    /\ clock' = clock + 1
    /\ UNCHANGED <<cache, lk, qs, nlook>>
    /\ UNCHANGED notCache

\* the LRU cache may itself drop an entry whose expiry has come
LruExpire ==
    /\ cache.present
    /\ cache.expire <= clock
    /\ cache' = NoEntry
    /\ UNCHANGED <<clock, lk, qs, nlook>>
    /\ UNCHANGED notCache

NextCache ==
    \/ \E s \in Strategies, e \in BOOLEAN : Lookup(s, e)
    \/ \E t \in QTypes, e \in ExchangeFailures : QueryFailed(t, e)
    \/ \E t \in QTypes : \E a \in Responses(t) : QueryAnswered(t, a)
    \/ LookupReturn
    \/ ClockTick
    \/ LruExpire

\* ------------------------------------------------------------------------
\* Part V - SystemResolver.Lookup
\* ------------------------------------------------------------------------
MaxHostAddrs == 2

\* What net.DefaultResolver.LookupIPAddr answers without an error: at least
\* one address, each IPv4 ("4"), IPv6 ("6") or one netip.AddrFromSlice
\* rejects ("bad"). The address at position i is <<family, i>>.
HostAnswers == UNION {[1..n -> {"4", "6", "bad"}] : n \in 1..MaxHostAddrs}

\* Strategy.IsValid: s < strategyMax
IsValid(s) == s \in Strategies

\* the loop of SystemResolver.Lookup: the addresses of family fam among the
\* answer, in order
RECURSIVE HostAddresses(_, _, _)
HostAddresses(answer, fam, i) ==
    IF i > Len(answer) THEN <<>>
    ELSE (IF answer[i] = fam THEN << <<fam, i>> >> ELSE <<>>)
            \o HostAddresses(answer, fam, i + 1)

IdleSys == [pc |-> "idle", A |-> <<>>, AAAA |-> <<>>, err |-> "none"]

SysAtRest ==
    /\ sysIn = [strategy |-> "default", failed |-> FALSE, answer |-> <<"4">>]
    /\ sysOut = IdleSys

InitSys ==
    /\ sysIn \in [strategy : Strategies \cup {"strategy: 5"},
                  failed : BOOLEAN,
                  answer : HostAnswers]
    /\ sysOut = IdleSys

\* SystemResolver.Lookup
SystemLookup ==
    /\ sysOut.pc = "idle"
    /\ sysOut' =
         IF ~IsValid(sysIn.strategy)
           THEN [IdleSys EXCEPT !.pc = "done", !.err = "unknownstrategy"]
         ELSE IF sysIn.failed
           THEN [IdleSys EXCEPT !.pc = "done", !.err = "lookuperr"]
         ELSE [pc |-> "done",
               A |-> randomSortAddresses(
                        IF sysIn.strategy # "ipv6_only"
                          THEN HostAddresses(sysIn.answer, "4", 1) ELSE <<>>),
               AAAA |-> randomSortAddresses(
                        IF sysIn.strategy # "ipv4_only"
                          THEN HostAddresses(sysIn.answer, "6", 1) ELSE <<>>),
               err |-> "none"]
    /\ sysIn' = sysIn
    /\ UNCHANGED notSys

NextSys == SystemLookup

\* ------------------------------------------------------------------------
\* Part VI - startup: NewTraffics and Traffics.Start
\* ------------------------------------------------------------------------
MaxRemotes == 2
MaxBinds == 2

RemoteNames == {"", "r1", "r2"}
BindNetworks == {"tcp", "udp", "tcp+udp"}
NoDialer == 0

\* a bind of the configuration: the name of its remote and its network
BindConfigs == [Remote : RemoteNames, Network : BindNetworks]

\* the configurations main may hand to NewTraffics; config.Remote holds the
\* names of the remotes in order
Configs ==
    [Remote : UNION {[1..n -> RemoteNames] : n \in 0..MaxRemotes},
     Binds : UNION {[1..n -> BindConfigs] : n \in 0..MaxBinds}]

\* Protocol.ToProtocolList: nil for a string that is none of the four
ToProtocolList(p) ==
    CASE p = "tcp" -> {"tcp"}
      [] p = "udp" -> {"udp"}
      [] p = "tcp+udp" \/ p = "" -> {"tcp", "udp"}
      [] p = "ip" -> {"ip"}
      [] OTHER -> {}

\* ProtocolList.Contain
Contain(n, proto) == proto \in n

\* initDialer: _, ok := t.nameToDialer[v.Name]
IsDuplicate_Never(table, name) == FALSE
IsDuplicate(table, name) == table[name] # NoDialer

\* initListener: dial, ok := t.nameToDialer[v.Remote]
HasRemote_Always(table, name) == TRUE
HasRemote(table, name) == table[name] # NoDialer

\* Traffics.initDialer from remote i on; dialer.NewDefault returns an error
\* for remote failAt (routing_mark on a system other than Linux). The dialer
\* of remote i is i.
RECURSIVE initDialer(_, _, _, _)
initDialer(remote, i, table, failAt) ==
    IF i > Len(remote) THEN [table |-> table, err |-> "none"]
    ELSE IF remote[i] = ""
      THEN [table |-> table, err |-> "no name specified"]
    ELSE IF IsDuplicate(table, remote[i])
      THEN [table |-> table, err |-> "duplicated remote name"]
    ELSE IF failAt = i
      THEN [table |-> table, err |-> "routing_mark"]
    ELSE initDialer(remote, i + 1, [table EXCEPT ![remote[i]] = i], failAt)

\* listener.NewListener: no socket yet; dialer is the dialer its handlers
\* were built with
NewListener(bind, dial, protocols) ==
    [bind |-> bind, dialer |-> dial, Network |-> protocols,
     tcpListener |-> FALSE, udpConn |-> FALSE,
     tcpOpen |-> 0, udpOpen |-> 0, tcpLoops |-> 0, udpLoops |-> 0,
     calls |-> 0, started |-> 0]

\* Traffics.initListener from bind i on, appending to the manager's list
RECURSIVE initListener(_, _, _, _)
initListener(binds, i, table, ls) ==
    IF i > Len(binds) THEN [listeners |-> ls, err |-> "none"]
    ELSE IF binds[i].Remote = ""
      THEN [listeners |-> ls, err |-> "no remote specified"]
    ELSE IF ~HasRemote(table, binds[i].Remote)
      THEN [listeners |-> ls, err |-> "no remote with name"]
    ELSE initListener(binds, i + 1, table,
            Append(ls, NewListener(i, table[binds[i].Remote],
                                   ToProtocolList(binds[i].Network))))

\* Listener.Start, the TCP half: ListenTCP, then go l.loopTcp()
StartTCP(l, tcpFails) ==
    IF ~Contain(l.Network, "tcp") THEN [l |-> l, err |-> "none"]
    ELSE IF tcpFails THEN [l |-> l, err |-> "listen"]
    ELSE [l |-> [l EXCEPT !.tcpListener = TRUE,
                          !.tcpOpen = @ + 1,
                          !.tcpLoops = @ + 1],
          err |-> "none"]

\* Listener.Start, the UDP half: ListenUDP, go l.loopUdpIn(), then the log
\* line that reads l.tcpListener.Addr(): a nil tcpListener panics
StartUDP(l, udpFails) ==
    IF ~Contain(l.Network, "udp") THEN [l |-> l, err |-> "none"]
    ELSE IF udpFails THEN [l |-> l, err |-> "listen"]
    ELSE [l |-> [l EXCEPT !.udpConn = TRUE,
                          !.udpOpen = @ + 1,
                          !.udpLoops = @ + 1],
          err |-> IF l.tcpListener THEN "none" ELSE "panic"]

\* Listener.Start; calls counts the calls, started those that returned nil
Start(l, tcpFails, udpFails) ==
    LET t == StartTCP([l EXCEPT !.calls = @ + 1], tcpFails)
        u == IF t.err = "none" THEN StartUDP(t.l, udpFails) ELSE t
    IN  IF u.err = "none"
          THEN [l |-> [u.l EXCEPT !.started = @ + 1], err |-> "none"]
          ELSE u

EmptyTable == [n \in RemoteNames |-> NoDialer]

SupAtRest ==
    /\ config = [Remote |-> <<>>, Binds |-> <<>>]
    /\ nameToDialer = EmptyTable
    /\ listeners = <<>>
    /\ tpc = "config"
    /\ startNext = 1
    /\ startErr = {}

InitSup ==
    /\ config \in Configs
    /\ nameToDialer = EmptyTable
    /\ listeners = <<>>
    /\ tpc = "config"
    /\ startNext = 1
    /\ startErr = {}

\* NewTraffics: the one bind of a configuration with one remote takes that
\* remote when it names none
NewTraffics ==
    /\ tpc = "config"
    /\ tpc' = "initDialer"
    /\ config' =
         IF /\ Len(config.Remote) = 1
            /\ Len(config.Binds) = 1
            /\ config.Binds[1].Remote = ""
           THEN [config EXCEPT !.Binds[1].Remote = config.Remote[1]]
           ELSE config
    /\ UNCHANGED <<nameToDialer, listeners, startNext, startErr>>
    /\ UNCHANGED notSup

\* Traffics.Start, first argument of errors.Join: t.initDialer()
InitDialer(failAt) ==
    /\ tpc = "initDialer"
    /\ LET r == initDialer(config.Remote, 1, nameToDialer, failAt)
       IN  /\ nameToDialer' = r.table
           /\ startErr' = IF r.err = "none" THEN startErr
                          ELSE startErr \cup {"initDialer"}
    /\ tpc' = "initListener"
    /\ UNCHANGED <<config, listeners, startNext>>
    /\ UNCHANGED notSup

\* Traffics.Start, second argument of errors.Join: t.initListener(), called
\* whatever initDialer returned
InitListener ==
    /\ tpc = "initListener"
    /\ LET r == initListener(config.Binds, 1, nameToDialer, listeners)
       IN  /\ listeners' = r.listeners
           /\ startErr' = IF r.err = "none" THEN startErr
                          ELSE startErr \cup {"initListener"}
    /\ tpc' = "StartAll"
    /\ UNCHANGED <<config, nameToDialer, startNext>>
    /\ UNCHANGED notSup

\* Traffics.Start, third argument of errors.Join: one round of the loop of
\* ListenManager.StartAll, called whatever the two before it returned; when
\* it returns, Start returns the joined errors
StartAll(tcpFails, udpFails) ==
    /\ tpc = "StartAll"
    /\ IF startNext > Len(listeners)
         THEN /\ tpc' = "returned"
              /\ UNCHANGED <<listeners, startNext, startErr>>
         ELSE LET r == Start(listeners[startNext], tcpFails, udpFails)
              IN  /\ listeners' = [listeners EXCEPT ![startNext] = r.l]
                  /\ tpc' = CASE r.err = "none" -> "StartAll"
                              [] r.err = "panic" -> "panic"
                              [] OTHER -> "returned"
                  /\ startNext' = IF r.err = "none" THEN startNext + 1
                                  ELSE startNext
                  /\ startErr' = IF r.err = "listen"
                                   THEN startErr \cup {"StartAll"}
                                   ELSE startErr
    /\ UNCHANGED <<config, nameToDialer>>
    /\ UNCHANGED notSup

\* the second call of Listener.Start on listener i, which Traffics.Start
\* has started
StartAgain(i, tcpFails, udpFails) ==
    /\ tpc = "returned"
    /\ i \in 1..Len(listeners)
    /\ listeners[i].calls = 1
    /\ listeners[i].started = 1
    /\ LET r == Start(listeners[i], tcpFails, udpFails)
       IN  /\ listeners' = [listeners EXCEPT ![i] = r.l]
           /\ tpc' = IF r.err = "panic" THEN "panic" ELSE tpc
    /\ UNCHANGED <<config, nameToDialer, startNext, startErr>>
    /\ UNCHANGED notSup

NextSup ==
    \/ NewTraffics
    \/ \E failAt \in 0..MaxRemotes : InitDialer(failAt)
    \/ InitListener
    \/ \E tcpFails, udpFails \in BOOLEAN : StartAll(tcpFails, udpFails)
    \/ \E i \in 1..MaxBinds, tcpFails, udpFails \in BOOLEAN :
          StartAgain(i, tcpFails, udpFails)

\* ------------------------------------------------------------------------
\* Part VII - the loops of a started Listener
\* ------------------------------------------------------------------------
MaxEvents == 3

\* go l.loopTcp() and go l.loopUdpIn() or go l.loopUdpInOOb()
Loops == {"tcp", "udp"}

\* What Accept, ReadFromUDPAddrPort and ReadMsgUDPAddrPort return while the
\* socket is open: an error, a connection, a datagram of n = 0 bytes
\* ("zero") or one of n = 1 byte, for any other length ("data").
Arrivals(k) == IF k = "tcp" THEN {"err", "conn"} ELSE {"err", "zero", "data"}

\* The Listener once Start has returned nil, with packetHandlerOOb set (oob)
\* or not.
\*   ctxDone   l.ctx is cancelled
\*   sockOpen  l.tcpListener and l.udpConn are open
\*   pc        per loop: in its call, with an error, with a datagram or a
\*             connection, or exited
\*   errAfter  per loop: the call returned its error after the cancellation
\*   got       the length n of the datagram the UDP loop holds
\*   logged    the errors the loops logged
\*   handled   the lengths of the datagrams handed to the packet handler
\*   nev       calls of Accept and Read that returned with the socket open
LisStarted(oob) ==
    [ctxDone |-> FALSE, sockOpen |-> TRUE, oob |-> oob,
     pc |-> [k \in Loops |-> "call"],
     errAfter |-> [k \in Loops |-> FALSE],
     got |-> 0, logged |-> {}, handled |-> {}, nev |-> 0]

LisAtRest == lis = LisStarted(FALSE)

InitLis == \E oob \in BOOLEAN : lis = LisStarted(oob)

\* the call of loop k returns while the socket is open
Arrive(k, r) ==
    /\ lis.pc[k] = "call"
    /\ lis.sockOpen
    /\ lis.nev < MaxEvents
    /\ lis' = IF r = "err"
                THEN [lis EXCEPT !.nev = @ + 1,
                                 !.pc[k] = "err",
                                 !.errAfter[k] = lis.ctxDone]
                ELSE [lis EXCEPT !.nev = @ + 1,
                                 !.pc[k] = "got",
                                 !.got = CASE r = "zero" -> 0
                                           [] r = "data" -> 1
                                           [] OTHER -> @]
    /\ UNCHANGED notLis

\* the call of loop k returns the error of a closed socket
ReturnClosed(k) ==
    /\ lis.pc[k] = "call"
    /\ ~lis.sockOpen
    /\ lis' = [lis EXCEPT !.pc[k] = "err", !.errAfter[k] = lis.ctxDone]
    /\ UNCHANGED notLis

\* if err != nil { if common.Done(l.ctx) { return }; l.logger.Error(...);
\* continue }
LoopErr(k) ==
    /\ lis.pc[k] = "err"
    /\ lis' = IF lis.ctxDone
                THEN [lis EXCEPT !.pc[k] = "exited"]
                ELSE [lis EXCEPT !.pc[k] = "call",
                                 !.logged = @ \cup
                                    {[loop |-> k,
                                      afterCancel |-> lis.errAfter[k]]}]
    /\ UNCHANGED notLis

\* loopTcp: go l.connHandler.HandleConn(l.ctx, conn).
\* loopUdpIn: l.packetHandler.HandlePacket(buf[:n], remote, l).
\* loopUdpInOOb: the same after if n == 0 { l.logger.Warn(...); continue }.
LoopHandle(k) ==
    /\ lis.pc[k] = "got"
    /\ lis' = IF k = "udp" /\ ~(lis.oob /\ lis.got = 0)
                THEN [lis EXCEPT !.pc[k] = "call",
                                 !.handled = @ \cup {lis.got}]
                ELSE [lis EXCEPT !.pc[k] = "call"]
    /\ UNCHANGED notLis

\* the context NewListener derived l.ctx from is cancelled
RootCancel ==
    /\ ~lis.ctxDone
    /\ lis' = [lis EXCEPT !.ctxDone = TRUE]
    /\ UNCHANGED notLis

\* Listener.Close: l.cancel(), l.tcpListener.Close(), l.udpConn.Close()
ListenerClose ==
    /\ lis.sockOpen
    /\ lis' = [lis EXCEPT !.ctxDone = TRUE, !.sockOpen = FALSE]
    /\ UNCHANGED notLis

\* the steps loop k takes without waiting for the network
LoopRuns(k) ==
    \/ ReturnClosed(k)
    \/ LoopErr(k)
    \/ LoopHandle(k)

NextLis ==
    \/ \E k \in Loops : \E r \in Arrivals(k) : Arrive(k, r)
    \/ \E k \in Loops : ReturnClosed(k)
    \/ \E k \in Loops : LoopErr(k)
    \/ \E k \in Loops : LoopHandle(k)
    \/ RootCancel
    \/ ListenerClose

\* ------------------------------------------------------------------------
\* Part VIII - one call of DefaultDialer.DialSerial
\* ------------------------------------------------------------------------
MaxCand == 2
MaxWait == 2

\* dialer.Timeout of NewDefault, the timeout configured for the remote, in
\* the unit of time of this part
DialTimeout == 1

\* net.Dialer.Timeout zero: no timeout
NoTimeout == 0

\* The Timeout of the net.Dialer inside each field of DefaultDialer as
\* NewDefault leaves it: set on defaultDialer only; dialer4, dialer6,
\* udpDialer4 and udpDialer6 are built from zero net.Dialer values.
TimeoutOf(dialer) == IF dialer = "default" THEN DialTimeout ELSE NoTimeout

\* the lists DialSerial may be given: addresses of both families, in any
\* order
Candidates == UNION {[1..n -> {"4", "6"}] : n \in 0..MaxCand}

\* availableAddress
DsAvail == filterAddressByNetwork(ParseNetwork(ser.network), ser.addrs)

\* How a connect ends, if it ends: with ctx cancelled DialContext returns the
\* error of the cancellation, else it connects or fails.
ConnectResults(done) == IF done THEN {"canceled"} ELSE {"conn", "refused"}

\* DialSerial after a connect returned r for candidate idx of n:
\* if err == nil { return conn, nil }; lastErr = err; next candidate, and
\* after the last one "all addresses failed"
AfterConnect_TryAll(r, idx, n) ==
    IF idx < n THEN "next" ELSE IF r = "conn" THEN "conn" ELSE "allfailed"
AfterConnect(r, idx, n) ==
    IF r = "conn" THEN "conn" ELSE IF idx < n THEN "next" ELSE "allfailed"

\* DialSerial(ctx, network, addresses, port) before it runs.
\*   ctxDone  ctx is cancelled
\*   pc       where the call is
\*   idx      the index of the for loop in availableAddress
\*   tried    the connects made so far, in order, and how they ended
\*   elapsed  the time the connect in flight has taken
\*   lastErr  lastErr
\*   ret      what DialSerial returned
SerNotCalled(net, addrs) ==
    [network |-> net, addrs |-> addrs, ctxDone |-> FALSE, pc |-> "idle",
     idx |-> 0, tried |-> <<>>, elapsed |-> 0, lastErr |-> "none",
     ret |-> "none"]

SerAtRest == ser = SerNotCalled("udp", <<>>)

InitSer ==
    \E n \in Networks, addrs \in Candidates : ser = SerNotCalled(n, addrs)

\* DialSerial up to its for loop
DialSerial ==
    /\ ser.pc = "idle"
    /\ ser' = IF Len(ser.addrs) = 0
                THEN [ser EXCEPT !.pc = "returned", !.ret = "noaddresses"]
              ELSE IF Len(DsAvail) = 0
                THEN [ser EXCEPT !.pc = "returned", !.ret = "noavailable"]
              ELSE [ser EXCEPT !.pc = "check", !.idx = 1]
    /\ UNCHANGED notSer

\* top of the for loop: if common.Done(ctx) { return nil, ctx.Err() }, else
\* pick the sub-dialer and call its DialContext
DsCheck ==
    /\ ser.pc = "check"
    /\ ser' = IF ser.ctxDone
                THEN [ser EXCEPT !.pc = "returned", !.ret = "ctxerr",
                                 !.elapsed = 0]
                ELSE [ser EXCEPT !.pc = "dialing", !.elapsed = 0,
                                 !.tried = Append(@,
                                    [addr |-> DsAvail[ser.idx],
                                     dialer |-> SubDialer(DsAvail[ser.idx]),
                                     res |-> "pending"])]
    /\ UNCHANGED notSer

\* the rest of the loop body once the connect has returned r
DsAfter(r) ==
    LET to == AfterConnect(r, ser.idx, Len(DsAvail)) IN
    [ser EXCEPT !.tried[Len(ser.tried)].res = r,
                !.lastErr = IF r = "conn" THEN @ ELSE r,
                !.pc = IF to = "next" THEN "check" ELSE "returned",
                !.idx = IF to = "next" THEN @ + 1 ELSE @,
                !.ret = IF to = "next" THEN @ ELSE to,
                !.elapsed = 0]

\* the connect returns
DsConnectEnds(r) ==
    /\ ser.pc = "dialing"
    /\ r \in ConnectResults(ser.ctxDone)
    /\ ser' = DsAfter(r)
    /\ UNCHANGED notSer

\* One unit of time passes with the connect neither connected nor failed:
\* the sub-dialer gives up when its Timeout has passed, if it has one.
DsWait ==
    /\ ser.pc = "dialing"
    /\ ser.elapsed < MaxWait
    /\ LET timeout == TimeoutOf(ser.tried[Len(ser.tried)].dialer) IN
         ser' = IF timeout # NoTimeout /\ ser.elapsed + 1 >= timeout
                  THEN DsAfter("timeout")
                  ELSE [ser EXCEPT !.elapsed = @ + 1]
    /\ UNCHANGED notSer

\* the caller cancels ctx
DsCancel ==
    /\ ~ser.ctxDone
    /\ ser.pc \in {"check", "dialing"}
    /\ ser' = [ser EXCEPT !.ctxDone = TRUE]
    /\ UNCHANGED notSer

NextSer ==
    \/ DialSerial
    \/ DsCheck
    \/ \E r \in {"conn", "refused", "canceled"} : DsConnectEnds(r)
    \/ DsWait
    \/ DsCancel

\* ------------------------------------------------------------------------
\* Part IX - functions of the configuration and of the resolver client
\* ------------------------------------------------------------------------
MaxParts == 3
MaxNow == 2
MaxOpt == 2

\* the Protocol constants
ProtocolTCP == "tcp"
ProtocolUDP == "udp"
ProtocolIP == "ip"
ProtocolTCPUDP == "tcp+udp"

\* the Networks a caller can build: a protocol and a version
ValidNetworks ==
    [Protocol : {ProtocolTCP, ProtocolUDP, ProtocolIP},
     Version : {NetworkVersion4, NetworkVersion6, NetworkVersionDual}]

\* strconv.Itoa of a number that is not negative
Digit(i) == SubSeq("0123456789", i + 1, i + 1)

RECURSIVE Itoa(_)
Itoa(i) == IF i < 10 THEN Digit(i) ELSE Itoa(i \div 10) \o Digit(i % 10)

\* Network.String: string(n.Protocol) + strconv.Itoa(int(n.Version))
String(n) == n.Protocol \o Itoa(n.Version)

\* strings.Index for a separator of one character, counted from 1; 0 when
\* the separator does not occur
Index(s, sep) ==
    IF \E i \in 1..Len(s) : SubSeq(s, i, i) = sep
      THEN CHOOSE i \in 1..Len(s) :
              /\ SubSeq(s, i, i) = sep
              /\ \A j \in 1..(i - 1) : SubSeq(s, j, j) # sep
      ELSE 0

\* strings.Split for a separator of one character
RECURSIVE Split(_, _)
Split(s, sep) ==
    LET i == Index(s, sep) IN
    IF i = 0 THEN <<s>>
    ELSE <<SubSeq(s, 1, i - 1)>> \o Split(SubSeq(s, i + 1, Len(s)), sep)

\* ParseProtocol: multi[0] == "tcp" && multi[1] == "udp" ||
\*                multi[0] == "udp" && multi[1] == "tcp"
IsTcpUdp_OneOrder(multi) == multi[1] = "tcp" /\ multi[2] = "udp"
IsTcpUdp(multi) ==
    \/ multi[1] = "tcp" /\ multi[2] = "udp"
    \/ multi[1] = "udp" /\ multi[2] = "tcp"

\* constant.ParseProtocol
ParseProtocol(name) ==
    IF Len(name) = 0 THEN ""
    ELSE CASE name = ProtocolTCP -> ProtocolTCP
           [] name = ProtocolUDP -> ProtocolUDP
           [] name = ProtocolIP -> ProtocolIP
           [] OTHER ->
                LET multi == Split(name, "+") IN
                IF Len(multi) = 2 /\ IsTcpUdp(multi)
                  THEN ProtocolTCPUDP ELSE ""

\* the names ParseProtocol is given: up to MaxParts words joined by "+"
Words == {"tcp", "udp", "ip", "TCP", ""}

RECURSIVE Join(_)
Join(q) ==
    IF Len(q) = 0 THEN ""
    ELSE IF Len(q) = 1 THEN q[1]
    ELSE q[1] \o "+" \o Join(Tail(q))

ProtocolNames == {Join(q) : q \in UNION {[1..k -> Words] : k \in 0..MaxParts}}

\* constant.ResolverDefaultReadTimeout, in seconds
ResolverDefaultReadTimeout == 5

\* the zero time.Time; time.Now() is later
ZeroTime == 0

\* Time.After
After(t, u) == t > u

\* ctx.Deadline(): ok and the deadline
Contexts ==
    {[ok |-> FALSE, dead |-> ZeroTime]} \cup
    {[ok |-> TRUE, dead |-> d] :
        d \in 1..(MaxNow + ResolverDefaultReadTimeout + 1)}

\* RawClient.exchange after the request is written: var deadline time.Time;
\* with a ctx deadline, time.Now().After(deadline) returns DeadlineExceeded,
\* else deadline = dead; without one deadline = now + the default; then
\* SetReadDeadline(deadline) and Read
exchangeRead(now, ctx) ==
    LET deadline == ZeroTime IN
    IF ctx.ok
      THEN IF After(now, deadline)
             THEN [err |-> "DeadlineExceeded", read |-> FALSE,
                   deadline |-> deadline]
             ELSE [err |-> "nil", read |-> TRUE, deadline |-> ctx.dead]
      ELSE [err |-> "nil", read |-> TRUE,
            deadline |-> now + ResolverDefaultReadTimeout]

\* where a bind comes from: a -l URL, a URL string in the JSON config, an
\* object in the JSON config
BindSources == {"flag", "jsonUrl", "jsonObject"}

\* the udp options a bind sets, each to a value of its own
OptKeys == {"udp_ttl", "udp_buffer_size"}
BindOptions == UNION {[ks -> 1..MaxOpt] : ks \in SUBSET OptKeys}

\* NewDefaultBind, udp_ttl in seconds
NewDefaultBind == [UDPKeepaliveTTL |-> 60, UDPBufferSize |-> 65507]

\* the BindConfig json.Unmarshal makes for an element of "binds"
ZeroBindConfig == [UDPKeepaliveTTL |-> 0, UDPBufferSize |-> 0]

\* BindConfig.Parse: case "udp_ttl" and case "udp_buffer_size" of the query
BindParse(c, opts) ==
    [UDPKeepaliveTTL |-> IF "udp_ttl" \in DOMAIN opts
                           THEN opts["udp_ttl"] ELSE c.UDPKeepaliveTTL,
     UDPBufferSize |-> IF "udp_buffer_size" \in DOMAIN opts
                         THEN opts["udp_buffer_size"] ELSE c.UDPBufferSize]

\* BindConfig.UnmarshalJSON: a URL goes to c.Parse, an object to
\* json.Unmarshal(bs, (*_BindConfig)(c)), which stores the fields it finds
UnmarshalJSON(c, isUrl, opts) ==
    IF isUrl THEN BindParse(c, opts)
    ELSE [UDPKeepaliveTTL |-> IF "udp_ttl" \in DOMAIN opts
                                THEN opts["udp_ttl"] ELSE c.UDPKeepaliveTTL,
          UDPBufferSize |-> IF "udp_buffer_size" \in DOMAIN opts
                              THEN opts["udp_buffer_size"]
                              ELSE c.UDPBufferSize]

\* main: bind := NewDefaultBind(); bind.Parse(k) for a -l URL, and
\* json.Unmarshal(bs, &config) for the binds of the config file; then
\* initListener and newUdpLoop read the two fields as they are
BindOf(source, opts) ==
    CASE source = "flag" -> BindParse(NewDefaultBind, opts)
      [] source = "jsonUrl" -> UnmarshalJSON(ZeroBindConfig, TRUE, opts)
      [] source = "jsonObject" -> UnmarshalJSON(ZeroBindConfig, FALSE, opts)

\* the Network of a bind after configuration: BindConfig.Parse stores
\* ParseProtocol(uu.Scheme), json.Unmarshal stores the "network" string of
\* an object as it is, and valid() turns "" into tcp+udp
BindNetwork(source, name) ==
    LET n == IF source = "jsonObject" THEN name ELSE ParseProtocol(name)
    IN  IF n = "" THEN ProtocolTCPUDP ELSE n

\* a function that is about to be called
Pending(op, arg) == [op |-> op, arg |-> arg, out |-> "", done |-> FALSE]

FnAtRest == fn = Pending("none", "")

InitFn ==
    \/ \E n \in ValidNetworks : fn = Pending("ParseNetwork", n)
    \/ \E name \in ProtocolNames : fn = Pending("ParseProtocol", name)
    \/ \E now \in 1..MaxNow, ctx \in Contexts :
          fn = Pending("exchange", [now |-> now, ctx |-> ctx])
    \/ \E source \in BindSources, opts \in BindOptions :
          fn = Pending("bind", [source |-> source, opts |-> opts])
    \/ \E source \in BindSources, name \in ProtocolNames,
          tcpFails \in BOOLEAN, udpFails \in BOOLEAN :
          fn = Pending("listen", [source |-> source, name |-> name,
                                  tcpFails |-> tcpFails,
                                  udpFails |-> udpFails])

\* ParseNetwork(n.String())
NetworkRoundTrip ==
    /\ fn.op = "ParseNetwork"
    /\ ~fn.done
    /\ fn' = [fn EXCEPT !.out = ParseNetwork(String(fn.arg)), !.done = TRUE]
    /\ UNCHANGED notFn

\* ParseProtocol(name)
CallParseProtocol ==
    /\ fn.op = "ParseProtocol"
    /\ ~fn.done
    /\ fn' = [fn EXCEPT !.out = ParseProtocol(fn.arg), !.done = TRUE]
    /\ UNCHANGED notFn

\* exchange sets the read deadline and reads
ExchangeRead ==
    /\ fn.op = "exchange"
    /\ ~fn.done
    /\ fn' = [fn EXCEPT !.out = exchangeRead(fn.arg.now, fn.arg.ctx),
                        !.done = TRUE]
    /\ UNCHANGED notFn

\* a bind is read from its source and handed to the listener
MakeBind ==
    /\ fn.op = "bind"
    /\ ~fn.done
    /\ fn' = [fn EXCEPT !.out = BindOf(fn.arg.source, fn.arg.opts),
                        !.done = TRUE]
    /\ UNCHANGED notFn

\* a bind with this network is configured, initListener makes its listener
\* and Listener.Start is called on it
StartBind ==
    /\ fn.op = "listen"
    /\ ~fn.done
    /\ fn' = [fn EXCEPT
                !.out = Start(NewListener(1, 1,
                                ToProtocolList(BindNetwork(fn.arg.source,
                                                           fn.arg.name))),
                              fn.arg.tcpFails, fn.arg.udpFails),
                !.done = TRUE]
    /\ UNCHANGED notFn

NextFn ==
    \/ NetworkRoundTrip
    \/ CallParseProtocol
    \/ ExchangeRead
    \/ MakeBind
    \/ StartBind

\* ------------------------------------------------------------------------
\* Part X - the process: main
\* ------------------------------------------------------------------------
MaxArgs == 2

\* the two main functions of the repository: "cmd" is the one that takes
\* several -l and -r flags and parses them itself, "root" the one of
\* src/main.go, which takes one of each through the flag package
Mains == {"cmd", "root"}

\* how many -l, and how many -r, a command line of a main can hold
FlagCounts(m) == IF m = "cmd" THEN 0..MaxArgs ELSE 0..1

\* the steps of a main, in the order of its code
Steps(m) ==
    IF m = "cmd"
      THEN <<"flags", "help", "config", "binds", "remotes", "empty", "new",
             "start", "wait">>
      ELSE <<"flags", "help", "binds", "remotes", "config", "new", "start",
             "wait">>

StepAfter(m, pc) ==
    Steps(m)[1 + CHOOSE i \in 1..Len(Steps(m)) : Steps(m)[i] = pc]

\* the process as it starts; exit is -1 while it runs
ProcStarted(m) ==
    [main |-> m, pc |-> "flags", help |-> FALSE, nl |-> 0, nr |-> 0,
     cfg |-> FALSE, binds |-> 0, remotes |-> 0, err |-> "none", exit |-> -1]

ProcAtRest == proc = ProcStarted("cmd")

InitProc == \E m \in Mains : proc = ProcStarted(m)

\* the process ends with this exit code
Exits(p, code) == [p EXCEPT !.pc = "exited", !.exit = code]

\* main meets a startup error: slog.Error, then "return" in the main of
\* "cmd", which ends the process with code 0, and os.Exit(1) in "root"
Fails(p, kind) ==
    [Exits(p, IF p.main = "cmd" THEN 0 ELSE 1) EXCEPT !.err = kind]

Proceeds(p) == [p EXCEPT !.pc = StepAfter(p.main, p.pc)]

\* parseFlags, or flag.Parse, whose flag set exits with code 2 on an error
MainParseFlags(ok, help, nl, nr, cfg) ==
    /\ proc.pc = "flags"
    /\ nl \in FlagCounts(proc.main)
    /\ nr \in FlagCounts(proc.main)
    /\ proc' = IF ok
                 THEN [Proceeds(proc) EXCEPT !.help = help, !.nl = nl,
                                             !.nr = nr, !.cfg = cfg]
               ELSE IF proc.main = "cmd" THEN Fails(proc, "flags")
               ELSE [Exits(proc, 2) EXCEPT !.err = "flags"]
    /\ UNCHANGED notProc

\* if flagHelp || (no -l, no -r, no -c) { fmt.Print(helpMessage) ... }
MainHelp ==
    /\ proc.pc = "help"
    /\ proc' = IF proc.help \/ (proc.nl = 0 /\ proc.nr = 0 /\ ~proc.cfg)
                 THEN Exits(proc, 0)
                 ELSE Proceeds(proc)
    /\ UNCHANGED notProc

\* the config file is read and unmarshalled: fb binds and fr remotes
MainConfig(readOk, jsonOk, fb, fr) ==
    /\ proc.pc = "config"
    /\ proc' = IF ~proc.cfg THEN Proceeds(proc)
               ELSE IF ~readOk THEN Fails(proc, "read")
               ELSE IF ~jsonOk THEN Fails(proc, "json")
               ELSE [Proceeds(proc) EXCEPT !.binds = fb, !.remotes = fr]
    /\ UNCHANGED notProc

\* "cmd": every -l is parsed and appended; "root": without -c the one -l is
\* parsed, and an empty one fails to parse
MainBinds(ok) ==
    /\ proc.pc = "binds"
    /\ proc' = IF proc.main = "cmd"
                 THEN IF proc.nl > 0 /\ ~ok THEN Fails(proc, "bind")
                      ELSE [Proceeds(proc) EXCEPT !.binds = @ + proc.nl]
               ELSE IF proc.cfg THEN Proceeds(proc)
               ELSE IF proc.nl = 0 \/ ~ok THEN Fails(proc, "bind")
               ELSE [Proceeds(proc) EXCEPT !.binds = @ + 1]
    /\ UNCHANGED notProc

\* the same for -r
MainRemotes(ok) ==
    /\ proc.pc = "remotes"
    /\ proc' = IF proc.main = "cmd"
                 THEN IF proc.nr > 0 /\ ~ok THEN Fails(proc, "remote")
                      ELSE [Proceeds(proc) EXCEPT !.remotes = @ + proc.nr]
               ELSE IF proc.cfg THEN Proceeds(proc)
               ELSE IF proc.nr = 0 \/ ~ok THEN Fails(proc, "remote")
               ELSE [Proceeds(proc) EXCEPT !.remotes = @ + 1]
    /\ UNCHANGED notProc

\* "cmd": if len(config.Binds) == 0 || len(config.Remote) == 0
MainEmpty ==
    /\ proc.pc = "empty"
    /\ proc' = IF proc.binds = 0 \/ proc.remotes = 0
                 THEN Fails(proc, "empty")
                 ELSE Proceeds(proc)
    /\ UNCHANGED notProc

\* tf, err := NewTraffics(rootCtx, config)
MainNewTraffics(ok) ==
    /\ proc.pc = "new"
    /\ proc' = IF ok THEN Proceeds(proc) ELSE Fails(proc, "new")
    /\ UNCHANGED notProc

\* err = tf.Start(); a panic of Start ends the process with code 2
MainStart(r) ==
    /\ proc.pc = "start"
    /\ proc' = CASE r = "ok" -> Proceeds(proc)
                 [] r = "err" -> Fails(proc, "start")
                 [] r = "panic" -> [Exits(proc, 2) EXCEPT !.err = "start"]
    /\ UNCHANGED notProc

\* <-ch; cancel(); tf.Close(); main returns
MainSignal ==
    /\ proc.pc = "wait"
    /\ proc' = Exits(proc, 0)
    /\ UNCHANGED notProc

NextProc ==
    \/ \E ok \in BOOLEAN, help \in BOOLEAN, nl \in 0..MaxArgs,
          nr \in 0..MaxArgs, cfg \in BOOLEAN :
            MainParseFlags(ok, help, nl, nr, cfg)
    \/ MainHelp
    \/ \E readOk \in BOOLEAN, jsonOk \in BOOLEAN, fb \in 0..MaxArgs,
          fr \in 0..MaxArgs : MainConfig(readOk, jsonOk, fb, fr)
    \/ \E ok \in BOOLEAN : MainBinds(ok)
    \/ \E ok \in BOOLEAN : MainRemotes(ok)
    \/ MainEmpty
    \/ \E ok \in BOOLEAN : MainNewTraffics(ok)
    \/ \E r \in {"ok", "err", "panic"} : MainStart(r)
    \/ MainSignal

\* ------------------------------------------------------------------------
\* Part XI - the datagrams of one client through the flow map
\* ------------------------------------------------------------------------
MaxDgram == 3
MaxFwdSock == 2
MaxRead == 2

\* the packet handler of a bind between two datagrams
IdleHandler == [pc |-> "idle", seq |-> 0, conn |-> NoConn, res |-> "none"]

\* t.udpConnTrack is empty, no socket is dialed, no datagram was received.
\*   track   udpConnTrack[client]: the socket stored under the one client
\*   socks   the upstream sockets dialed, each with its bind, its
\*           newUdpLoop (pc), the datagrams written to it (up), how many
\*           were read from it (nread) and those written back to the
\*           client (down)
\*   rx      per bind: datagrams loopUdpIn has received
\*   h       per bind: the call of the packet handler
NoDatagrams ==
    [track |-> NoConn, socks |-> <<>>, rx |-> [b \in Binds |-> 0],
     h |-> [b \in Binds |-> IdleHandler]]

FwdAtRest == fwd = NoDatagrams

\* datagrams the binds have received, and datagrams read from the upstream
\* sockets, so far
RECURSIVE Received(_, _)
Received(f, bs) ==
    IF bs = {} THEN 0
    ELSE LET b == CHOOSE x \in bs : TRUE IN f.rx[b] + Received(f, bs \ {b})

RECURSIVE ReadSoFar(_, _)
ReadSoFar(f, n) == IF n = 0 THEN 0 ELSE f.socks[n].nread + ReadSoFar(f, n - 1)

InitFwd == fwd = NoDatagrams

\* conn.Write(p) and pw.WritePacket(readBuf[:read], client): the datagram
\* joins those the socket has carried
WriteDatagram_First(log, d) == <<d>> \o log
WriteDatagram(log, d) == Append(log, d)

\* PacketHandler: the dial returned an error: it is logged and the handler
\* returns
AfterDialFail_Evict(f, b) ==
    [f EXCEPT !.h[b] = [IdleHandler EXCEPT !.res = "dialerr"],
              !.track = NoConn]
AfterDialFail(f, b) ==
    [f EXCEPT !.h[b] = [IdleHandler EXCEPT !.res = "dialerr"]]

\* loopUdpIn of bind b reads a datagram and calls the packet handler, which
\* loads the client's entry: a hit goes on to conn.Write on the entry's
\* socket, a miss to DialContext
Receive(b) ==
    /\ fwd.h[b].pc = "idle"
    /\ Received(fwd, Binds) < MaxDgram
    /\ fwd' = [fwd EXCEPT
                 !.rx[b] = @ + 1,
                 !.h[b] = [pc |-> IF fwd.track # NoConn
                                    THEN "write" ELSE "dial",
                           seq |-> fwd.rx[b] + 1,
                           conn |-> fwd.track,
                           res |-> "none"]]
    /\ UNCHANGED notFwd

\* conn.Write(p), of a hit or after the Store of a miss: an error is logged;
\* a closed socket always fails
HandlerWrite(b, ok) ==
    /\ fwd.h[b].pc = "write"
    /\ LET s == fwd.h[b].conn
           sent == ok /\ fwd.socks[s].open
       IN fwd' = [fwd EXCEPT
                    !.socks[s].up =
                        IF sent
                          THEN WriteDatagram(@, [bind |-> b,
                                                 seq |-> fwd.h[b].seq])
                          ELSE @,
                    !.h[b] = [IdleHandler EXCEPT
                                !.res = IF sent THEN "written" ELSE "werr"]]
    /\ UNCHANGED notFwd

\* conn, err := dial.DialContext(...); err != nil
HandlerDialFail(b) ==
    /\ fwd.h[b].pc = "dial"
    /\ fwd' = AfterDialFail(fwd, b)
    /\ UNCHANGED notFwd

\* the dial succeeded: t.udpConnTrack.Store(remote, udpConn);
\* go t.newUdpLoop(...); then udpConn.Write(p)
HandlerDialStore(b) ==
    /\ fwd.h[b].pc = "dial"
    /\ Len(fwd.socks) < MaxFwdSock
    /\ LET s == Len(fwd.socks) + 1 IN
       fwd' = [fwd EXCEPT
                 !.socks = Append(@, [bind |-> b, open |-> TRUE,
                                      pc |-> "read", up |-> <<>>,
                                      nread |-> 0, down |-> <<>>]),
                 !.track = s,
                 !.h[b].pc = "write",
                 !.h[b].conn = s]
    /\ UNCHANGED notFwd

\* newUdpLoop: proxyConn.Read returns a datagram of the upstream, which
\* pw.WritePacket(readBuf[:read], client) writes back before the next
\* Read, or an error (the deadline, a closed socket) that ends the loop
LoopRead(s, r) ==
    /\ s \in 1..Len(fwd.socks)
    /\ fwd.socks[s].pc = "read"
    /\ r = "data" => ( /\ fwd.socks[s].open
                       /\ ReadSoFar(fwd, Len(fwd.socks)) < MaxRead )
    /\ fwd' = IF r = "data"
                THEN [fwd EXCEPT
                        !.socks[s].nread = @ + 1,
                        !.socks[s].down =
                            WriteDatagram(@, fwd.socks[s].nread + 1)]
                ELSE [fwd EXCEPT !.socks[s].pc = "exit"]
    /\ UNCHANGED notFwd

\* newUdpLoop, deferred: t.udpConnTrack.Delete(client); proxyConn.Close()
LoopDeferred(s) ==
    /\ s \in 1..Len(fwd.socks)
    /\ fwd.socks[s].pc = "exit"
    /\ fwd' = [fwd EXCEPT !.track = NoConn,
                          !.socks[s].open = FALSE,
                          !.socks[s].pc = "done"]
    /\ UNCHANGED notFwd

NextFwd ==
    \/ \E b \in Binds : Receive(b)
    \/ \E b \in Binds, ok \in BOOLEAN : HandlerWrite(b, ok)
    \/ \E b \in Binds : HandlerDialFail(b)
    \/ \E b \in Binds : HandlerDialStore(b)
    \/ \E s \in 1..MaxFwdSock, r \in {"data", "err"} : LoopRead(s, r)
    \/ \E s \in 1..MaxFwdSock : LoopDeferred(s)

\* ------------------------------------------------------------------------
\* Part XII - the connections of loopTcp through ConnHandler
\* ------------------------------------------------------------------------
MaxAccept == 2
MaxAcceptErr == 1
MaxCopy == 1

\* a connection Accept has returned, handed to "go HandleConn":
\*   pc      "dial", "copy" or "done": where its ConnHandler call is
\*   lo      the accepted socket (local): "open" or "closed"
\*   up      the upstream socket (remote): "none", "open" or "closed"
\*   moved   chunks bufio.CopyConn has carried between the two
\*   err     "none", "dial" or "copy": what the handler logged
Accepted == [pc |-> "dial", lo |-> "open", up |-> "none", moved |-> 0,
             err |-> "none"]

\* the listener is started and loopTcp waits in Accept.
\*   conns    the connections accepted so far
\*   loop     "accept" or "returned": loopTcp
\*   ctxDone  l.ctx is cancelled
\*   nerr     failed calls of Accept so far
NoStreams == [conns |-> <<>>, loop |-> "accept", ctxDone |-> FALSE, nerr |-> 0]

InitTcp == fwd = NoStreams

\* the handler returns after a failed dial: only "defer local.Close()" is
\* registered
AfterDialErr_Leak(c) == [c EXCEPT !.pc = "done", !.err = "dial"]
AfterDialErr(c) ==
    [c EXCEPT !.pc = "done", !.err = "dial", !.lo = "closed"]

\* the handler returns after CopyConn: the deferred remote.Close() and
\* local.Close() run
AfterCopy(c, e) ==
    [c EXCEPT !.pc = "done", !.err = e, !.up = "closed", !.lo = "closed"]

\* loopTcp: Accept returns a connection, "go l.connHandler.HandleConn"
TcpAccept ==
    /\ fwd.loop = "accept"
    /\ ~fwd.ctxDone
    /\ Len(fwd.conns) < MaxAccept
    /\ fwd' = [fwd EXCEPT !.conns = Append(@, Accepted)]
    /\ UNCHANGED notFwd

\* loopTcp: Accept returns an error: return when the context is done,
\* else log and continue
TcpAcceptErr ==
    /\ fwd.loop = "accept"
    /\ fwd.nerr < MaxAcceptErr
    /\ fwd' = IF fwd.ctxDone
                THEN [fwd EXCEPT !.nerr = @ + 1, !.loop = "returned"]
                ELSE [fwd EXCEPT !.nerr = @ + 1]
    /\ UNCHANGED notFwd

\* Listener.Close: the context is cancelled and the listening socket closed
TcpClose ==
    /\ ~fwd.ctxDone
    /\ fwd' = [fwd EXCEPT !.ctxDone = TRUE]
    /\ UNCHANGED notFwd

\* ConnHandler: dial.DialContext returns
TcpDial(i, ok) ==
    /\ i \in 1..Len(fwd.conns)
    /\ fwd.conns[i].pc = "dial"
    /\ fwd' = IF ok
                THEN [fwd EXCEPT !.conns[i].pc = "copy",
                                 !.conns[i].up = "open"]
                ELSE [fwd EXCEPT !.conns[i] = AfterDialErr(@)]
    /\ UNCHANGED notFwd

\* bufio.CopyConn carries a chunk from one socket to the other
TcpCopy(i) ==
    /\ i \in 1..Len(fwd.conns)
    /\ fwd.conns[i].pc = "copy"
    /\ fwd.conns[i].moved < MaxCopy
    /\ fwd' = [fwd EXCEPT !.conns[i].moved = @ + 1]
    /\ UNCHANGED notFwd

\* bufio.CopyConn returns, with an error or without
TcpCopyEnds(i, e) ==
    /\ i \in 1..Len(fwd.conns)
    /\ fwd.conns[i].pc = "copy"
    /\ fwd' = [fwd EXCEPT !.conns[i] = AfterCopy(@, e)]
    /\ UNCHANGED notFwd

NextTcp ==
    \/ TcpAccept
    \/ TcpAcceptErr
    \/ TcpClose
    \/ \E i \in 1..MaxAccept, ok \in BOOLEAN : TcpDial(i, ok)
    \/ \E i \in 1..MaxAccept : TcpCopy(i)
    \/ \E i \in 1..MaxAccept, e \in {"none", "copy"} : TcpCopyEnds(i, e)

\* ------------------------------------------------------------------------
\* Part XIII - RawClient: the answers read from a pooled socket, and many
\* exchanges at once
\* ------------------------------------------------------------------------
MaxId == 2
MaxMany == 9

\* dns.Id() of lookupToExchange, or the id of the caller of Exchange
MsgIds == 1..MaxId
Rcodes == {"NOERROR", "SERVFAIL"}

\* a datagram of the DNS server in answer to call n of exchange, whose
\* request has the id reqId: Id, Truncated, Rcode of the message
Replies(n, reqId) == [id : {reqId}, tc : BOOLEAN, rcode : Rcodes, call : {n}]
NoReply == [id |-> 0, tc |-> FALSE, rcode |-> "NOERROR", call |-> 0]

\* the datagrams the server may send in answer to the calls
AllReplies == UNION {Replies(n, i) : n \in 1..MaxExch, i \in MsgIds}

\* exchange, after Unpack: the checks of the answer against request.Id
CheckAnswer(reqId, a) ==
    IF a.rcode # "NOERROR" THEN "rcode"
    ELSE IF a.id # reqId THEN "id"
    ELSE IF a.tc THEN "truncated"
    ELSE "ok"

\* One caller at a time on a new RawClient; the first call dials socket 1.
\*   xs.pc    "idle", "get", "write", "read", "ret" or "done"
\*   xs.req   request.Id of the call
\*   xs.res   what the call returns; xs.ans the answer with "ok"
\*   xs.buf   the datagrams waiting in the socket's receive buffer
\*   xs.net   the datagrams on their way from the server
NoCallYet == [pc |-> "idle", req |-> 0, conn |-> 0, res |-> "none",
              ans |-> NoReply, buf |-> <<>>, net |-> {}]

InitLate ==
    /\ conns_ = <<>>
    /\ connCount = 0
    /\ socks = [k \in PoolSocks |-> "none"]
    /\ nsock = 0
    /\ xs = NoCallYet
    /\ nexch = 0

\* exchange is called with a request
LateCall(reqId) ==
    /\ xs.pc \in {"idle", "done"}
    /\ nexch < MaxExch
    /\ nexch' = nexch + 1
    /\ xs' = [xs EXCEPT !.pc = "get", !.req = reqId, !.conn = 0,
                        !.res = "none", !.ans = NoReply]
    /\ UNCHANGED <<conns_, connCount, socks, nsock>>
    /\ UNCHANGED notPool

\* newUdpConn: case conn := <-c.conns, else the dial of a new socket
LateGet ==
    /\ xs.pc = "get"
    /\ IF Len(conns_) > 0
         THEN /\ xs' = [xs EXCEPT !.pc = "write", !.conn = Head(conns_)]
              /\ conns_' = Tail(conns_)
              /\ UNCHANGED <<socks, nsock>>
         ELSE /\ nsock < MaxPoolSock
              /\ nsock' = nsock + 1
              /\ socks' = [socks EXCEPT ![nsock + 1] = "open"]
              /\ xs' = [xs EXCEPT !.pc = "write", !.conn = nsock + 1]
              /\ UNCHANGED conns_
    /\ UNCHANGED <<connCount, nexch>>
    /\ UNCHANGED notPool

\* conn.Write(pack), defer func() { c.conns <- conn }(), SetReadDeadline;
\* the server answers the request with a datagram, or with none
LateWrite(replies) ==
    /\ xs.pc = "write"
    /\ xs' = [xs EXCEPT !.pc = "read", !.net = @ \cup replies]
    /\ UNCHANGED <<conns_, connCount, socks, nsock, nexch>>
    /\ UNCHANGED notPool

\* a datagram of the server reaches the socket
LateArrive(a) ==
    /\ a \in xs.net
    /\ xs' = [xs EXCEPT !.net = @ \ {a}, !.buf = Append(@, a)]
    /\ UNCHANGED <<conns_, connCount, socks, nsock, nexch>>
    /\ UNCHANGED notPool

\* conn.Read returns the first datagram of the buffer; Unpack and the checks
LateRead ==
    /\ xs.pc = "read"
    /\ Len(xs.buf) > 0
    /\ LET a == Head(xs.buf)
           r == CheckAnswer(xs.req, a)
       IN xs' = [xs EXCEPT !.pc = "ret", !.res = r, !.buf = Tail(@),
                           !.ans = IF r = "ok" THEN a ELSE NoReply]
    /\ UNCHANGED <<conns_, connCount, socks, nsock, nexch>>
    /\ UNCHANGED notPool

\* conn.Read returns at the read deadline with nothing read
LateTimeout ==
    /\ xs.pc = "read"
    /\ Len(xs.buf) = 0
    /\ xs' = [xs EXCEPT !.pc = "ret", !.res = "readerr"]
    /\ UNCHANGED <<conns_, connCount, socks, nsock, nexch>>
    /\ UNCHANGED notPool

\* the deferred c.conns <- conn
LateReturn ==
    /\ xs.pc = "ret"
    /\ Len(conns_) < maxConn
    /\ conns_' = Append(conns_, xs.conn)
    /\ xs' = [xs EXCEPT !.pc = "done"]
    /\ UNCHANGED <<connCount, socks, nsock, nexch>>
    /\ UNCHANGED notPool

NextLate ==
    \/ \E reqId \in MsgIds : LateCall(reqId)
    \/ LateGet
    \/ \E a \in Replies(nexch, xs.req) : LateWrite({a})
    \/ LateWrite({})
    \/ \E a \in AllReplies : LateArrive(a)
    \/ LateRead
    \/ LateTimeout
    \/ LateReturn

\* Any number of exchanges at once on a new RawClient, counted by where
\* they are; a socket in c.conns is written "conn".
\*   xs.get   calls in newUdpConn
\*   xs.read  calls between the write and the return of conn.Read
\*   xs.ret   calls in the deferred c.conns <- conn
\*   xs.done  calls that have returned
NoCalls == [get |-> 0, read |-> 0, ret |-> 0, done |-> 0]

InitMany ==
    /\ conns_ = <<>>
    /\ connCount = 0
    /\ socks = [k \in PoolSocks |-> "none"]
    /\ nsock = 0
    /\ xs = NoCalls
    /\ nexch = 0

\* exchange is called
ManyCall ==
    /\ nexch < MaxMany
    /\ nexch' = nexch + 1
    /\ xs' = [xs EXCEPT !.get = @ + 1]
    /\ UNCHANGED <<conns_, connCount, socks, nsock>>
    /\ UNCHANGED notPool

\* newUdpConn: case conn := <-c.conns (also the wait of the default case);
\* then the write
ManyTake ==
    /\ xs.get > 0
    /\ Len(conns_) > 0
    /\ conns_' = Tail(conns_)
    /\ xs' = [xs EXCEPT !.get = @ - 1, !.read = @ + 1]
    /\ UNCHANGED <<connCount, socks, nsock, nexch>>
    /\ UNCHANGED notPool

\* newUdpConn: default with connCount < maxConn: the dial, which returns a
\* socket or an error; connCount is left as it is
ManyDial(ok) ==
    /\ xs.get > 0
    /\ Len(conns_) = 0
    /\ connCount < maxConn
    /\ IF ok
         THEN /\ nsock' = nsock + 1
              /\ xs' = [xs EXCEPT !.get = @ - 1, !.read = @ + 1]
         ELSE /\ nsock' = nsock
              /\ xs' = [xs EXCEPT !.get = @ - 1, !.done = @ + 1]
    /\ UNCHANGED <<conns_, connCount, socks, nexch>>
    /\ UNCHANGED notPool

\* conn.Read returns, with a datagram or at its deadline, and exchange
\* returns: the deferred send is next
ManyRead ==
    /\ xs.read > 0
    /\ xs' = [xs EXCEPT !.read = @ - 1, !.ret = @ + 1]
    /\ UNCHANGED <<conns_, connCount, socks, nsock, nexch>>
    /\ UNCHANGED notPool

\* the deferred c.conns <- conn: a send on a channel of capacity maxConn
ManyReturn ==
    /\ xs.ret > 0
    /\ Len(conns_) < maxConn
    /\ conns_' = Append(conns_, "conn")
    /\ xs' = [xs EXCEPT !.ret = @ - 1, !.done = @ + 1]
    /\ UNCHANGED <<connCount, socks, nsock, nexch>>
    /\ UNCHANGED notPool

NextMany ==
    \/ ManyCall
    \/ ManyTake
    \/ \E ok \in BOOLEAN : ManyDial(ok)
    \/ ManyRead
    \/ ManyReturn

\* ------------------------------------------------------------------------
\* Part XIV - DefaultDialer.DialContext: Lookup, then DialParallel
\* ------------------------------------------------------------------------
\* the networks ConnHandler and PacketHandler dial with
HandlerNetworks == {"tcp", "udp"}

\* a list of the dialer holds the family of each address
Families(addrs, fam) == [k \in 1..Len(addrs) |-> fam]

\* DialContext is called for a domain name; the resolver has not answered
InitCtx ==
    /\ InitSys
    /\ network \in HandlerNetworks
    /\ ipv4 = <<>>
    /\ ipv6 = <<>>
    /\ parentDone = FALSE
    /\ cancelled = FALSE
    /\ mpc = "resolve"
    /\ ret = "none"
    /\ timer = "unset"
    /\ ipv4Started = FALSE
    /\ resultsReceived = 0
    /\ resultChan = <<>>
    /\ sp = [p \in Callers |-> IdleCall]
    /\ connState = [p \in Callers |-> "none"]
    /\ attempts = {}
    /\ v4Starts = 0
    /\ v6Early = FALSE

\* DialContext: a, aaaa, err := d.resolver.Lookup(ctx, host,
\* d.resolveStrategy); an error is returned, else DialParallel is called
\* with the two lists
DialContext ==
    /\ mpc = "resolve"
    /\ sysOut.pc = "done"
    /\ IF sysOut.err # "none"
         THEN /\ mpc' = "returned"
              /\ ret' = "resolveerr"
              /\ UNCHANGED <<ipv4, ipv6>>
         ELSE /\ mpc' = "start"
              /\ ret' = ret
              /\ ipv4' = Families(sysOut.A, "4")
              /\ ipv6' = Families(sysOut.AAAA, "6")
    /\ UNCHANGED <<network, parentDone, cancelled, timer, ipv4Started,
                   resultsReceived, resultChan, sp, connState, attempts,
                   v4Starts, v6Early>>
    /\ UNCHANGED notDial

NextCtx ==
    \/ SystemLookup
    \/ DialContext
    \/ NextDial

\* ------------------------------------------------------------------------
\* Specifications: each part runs with the other parts at rest
\* ------------------------------------------------------------------------
\* all parts but the one a specification runs are at rest
RestBut(part) ==
    /\ IF part = "udp" THEN TRUE ELSE InitUdp
    /\ IF part = "dial" THEN TRUE ELSE DialAtRest
    /\ IF part = "pool" THEN TRUE ELSE InitPool
    /\ IF part = "cache" THEN TRUE ELSE InitCache
    /\ IF part = "sys" THEN TRUE ELSE SysAtRest
    /\ IF part = "sup" THEN TRUE ELSE SupAtRest
    /\ IF part = "lis" THEN TRUE ELSE LisAtRest
    /\ IF part = "ser" THEN TRUE ELSE SerAtRest
    /\ IF part = "fn" THEN TRUE ELSE FnAtRest
    /\ IF part = "proc" THEN TRUE ELSE ProcAtRest
    /\ IF part = "fwd" THEN TRUE ELSE FwdAtRest

InitSpecUdp == InitUdp /\ RestBut("udp")

SpecUdp == InitSpecUdp /\ [][NextUdp]_vars

\* Every flow's goroutine keeps being scheduled.
FairSpecUdp == SpecUdp /\ \A s \in Socks : WF_udpVars(LoopStep(s))

InitSpecDial == InitDial /\ RestBut("dial")

SpecDial == InitSpecDial /\ [][NextDial]_vars

\* DialParallel's goroutine and every DialSerial call keep running, and
\* every connect attempt ends.
FairSpecDial ==
    SpecDial /\ WF_vars(MainStep) /\ \A p \in Callers : WF_vars(CallStep(p))

InitSpecPool == InitPool /\ RestBut("pool")

SpecPool == InitSpecPool /\ [][NextPool]_vars

InitSpecCache == InitCache /\ RestBut("cache")

SpecCache == InitSpecCache /\ [][NextCache]_vars

InitSpecSys == InitSys /\ RestBut("sys")

SpecSys == InitSpecSys /\ [][NextSys]_vars

InitSpecSup == InitSup /\ RestBut("sup")

SpecSup == InitSpecSup /\ [][NextSup]_vars

InitSpecLis == InitLis /\ RestBut("lis")

SpecLis == InitSpecLis /\ [][NextLis]_vars

\* Every loop keeps running, and a call on a closed socket returns.
FairSpecLis == SpecLis /\ \A k \in Loops : WF_vars(LoopRuns(k))

InitSpecSer == InitSer /\ RestBut("ser")

InitSpecFn == InitFn /\ RestBut("fn")

InitSpecProc == InitProc /\ RestBut("proc")

SpecProc == InitSpecProc /\ [][NextProc]_vars

SpecFn == InitSpecFn /\ [][NextFn]_vars

SpecSer == InitSpecSer /\ [][NextSer]_vars

InitSpecFwd == InitFwd /\ RestBut("fwd")

SpecFwd == InitSpecFwd /\ [][NextFwd]_vars

InitSpecTcp == InitTcp /\ RestBut("fwd")

SpecTcp == InitSpecTcp /\ [][NextTcp]_vars

\* Every handler goroutine keeps running: its dial returns and its copy
\* ends.
FairSpecTcp ==
    SpecTcp /\ \A i \in 1..MaxAccept :
                 /\ WF_fwd(\E ok \in BOOLEAN : TcpDial(i, ok))
                 /\ WF_fwd(\E e \in {"none", "copy"} : TcpCopyEnds(i, e))

InitSpecLate == InitLate /\ RestBut("pool")

SpecLate == InitSpecLate /\ [][NextLate]_vars

InitSpecMany == InitMany /\ RestBut("pool")

SpecMany == InitSpecMany /\ [][NextMany]_vars

\* Every exchange goroutine keeps running: its dial and its read return.
FairSpecMany ==
    SpecMany /\ WF_poolVars(ManyTake)
             /\ WF_poolVars(\E ok \in BOOLEAN : ManyDial(ok))
             /\ WF_poolVars(ManyRead)
             /\ WF_poolVars(ManyReturn)

InitSpecCtx ==
    /\ InitCtx
    /\ InitUdp
    /\ InitPool
    /\ InitCache
    /\ SupAtRest
    /\ LisAtRest
    /\ SerAtRest
    /\ FnAtRest
    /\ ProcAtRest
    /\ FwdAtRest

SpecCtx == InitSpecCtx /\ [][NextCtx]_vars

\* ------------------------------------------------------------------------
\* Claims about the UDP flow tracker
\* ------------------------------------------------------------------------

\* A flow is active while its socket is open and its newUdpLoop is in the
\* for loop.
ActiveFlow(s) == conns[s].open /\ conns[s].pc \in {"arm", "read"}

\* C1: for every client endpoint and every bind there is at most one open
\* upstream socket with a running read loop, and at most one map entry.
\* udpConnTrack is one map for all binds, keyed by the client endpoint alone:
\* the loop of one bind's flow deletes the entry of another bind's flow, and
\* that bind then dials a second socket for the same client.
C1_OneActiveFlowPerClientPerBind ==
    \A s1 \in Socks, s2 \in Socks :
        ( /\ ActiveFlow(s1)
          /\ ActiveFlow(s2)
          /\ conns[s1].bind = conns[s2].bind
          /\ conns[s1].client = conns[s2].client ) => s1 = s2

\* The loop of s is blocked in a Read whose deadline has passed.
Expired(s) == conns[s].pc = "read" /\ conns[s].deadline = 0

\* C2: the read deadline is armed to a full udp_ttl at the start of every
\* read iteration (a loop enters the read only through SetReadDeadline); a
\* loop reading with an expired deadline can only leave the read for its
\* deferred exit, which removes the map entry and closes the socket; and no
\* loop stays at an expired read or before its deferred exit for ever.
C2_IdleFlowEvicted ==
    /\ [][\A s \in Socks :
            /\ (conns'[s].pc = "read" /\ conns[s].pc # "read")
                  => (conns[s].pc = "arm" /\ conns'[s].deadline = UdpTtl)
            /\ (Expired(s) /\ conns'[s].pc # "read")
                  => conns'[s].pc = "delete"
            /\ (conns[s].pc = "delete" /\ conns'[s].pc # "delete")
                  => ( /\ conns'[s].pc = "done"
                       /\ ~conns'[s].open
                       /\ udpConnTrack'[conns[s].client] = NoConn )]_vars
    /\ <>[](\A s \in Socks : ~Expired(s) /\ conns[s].pc # "delete")

\* a flow ended by the read deadline
C2_Witness ==
    \E s \in Socks :
        /\ conns[s].pc = "done"
        /\ conns[s].err = "timeout"
        /\ ~conns[s].open
        /\ udpConnTrack[conns[s].client] # s

\* C3: a Read failing with ECONNREFUSED before the deadline leaves the loop
\* at the read, the socket open, the map as it is and the deadline as it is
\* (it is not re-armed), so only the deadline ends the flow.
C3_RefusedKeepsFlow ==
    [][\A s \in Socks :
          (conns[s].pc = "read" /\ conns[s].err # "refused"
           /\ conns'[s].err = "refused")
              => ( /\ conns'[s].pc = "read"
                   /\ conns[s].open /\ conns'[s].open
                   /\ conns[s].deadline > 0
                   /\ conns'[s].deadline = conns[s].deadline
                   /\ udpConnTrack' = udpConnTrack )]_vars

\* a flow still tracked and reading after an ECONNREFUSED
C3_Witness ==
    \E s \in Socks :
        /\ conns[s].pc = "read"
        /\ conns[s].err = "refused"
        /\ conns[s].open
        /\ udpConnTrack[conns[s].client] = s

\* C19: once Traffics.Close has returned and the packet handlers in flight
\* have finished, every upstream socket that was stored in udpConnTrack is
\* closed (none is left to its udp_ttl).
\* Range closes only the sockets the map holds when it runs: a socket whose
\* key was overwritten by another bind's Store or deleted by another flow's
\* exit, and a socket a handler stores after Range, stay open.
C19_CloseClosesEveryFlow ==
    (spc = "closed" /\ \A b \in Binds : hpc[b] = "idle")
        => \A s \in Socks : conns[s].pc # "unused" => ~conns[s].open

\* ------------------------------------------------------------------------
\* Claims about DialParallel and DialSerial
\* ------------------------------------------------------------------------

\* DialParallel has returned and both branch goroutines have ended.
DialQuiet ==
    /\ mpc = "returned"
    /\ \A p \in Branches : sp[p].pc \in {"idle", "exit"}

\* C4: once a winning connection is returned, every connection the other
\* branch established is closed: no established connection stays open
\* without having been returned. A branch that connected before the winner
\* was selected has sent its connection into resultChan, which nobody reads
\* any more; after cancel() the branch's select may still choose the send.
C4_LoserConnectionClosed ==
    (DialQuiet /\ ret \in Branches)
        => \A p \in Branches : connState[p] = "open" => ret = p

\* The select of DialParallel takes from resultChan the success of the IPv6
\* attempt while the IPv4 attempt has not been started.
TakesV6Success ==
    /\ mpc = "select"
    /\ Len(resultChan) > 0
    /\ resultsReceived' = resultsReceived + 1
    /\ Head(resultChan).from = "v6"
    /\ ~Head(resultChan).isErr
    /\ ~ipv4Started

\* C5 as claimed, for the executions in which the caller does not cancel:
\* if the IPv6 attempt connects while ipv4Timer is running, no IPv4 connect
\* attempt is ever started and the IPv6 connection is the one returned.
C5_V6SuccessBeforeTimer ==
    (v6Early /\ ~parentDone)
        => /\ \A a \in attempts : a.by # "v4"
           /\ mpc = "returned" => ret = "v6"

\* C5 amended: if the select takes the IPv6 success from resultChan before it
\* has taken the timer or the cancellation, DialParallel returns the IPv6
\* connection in that step, and no IPv4 connect attempt is ever started.
C5_V6SuccessTakenFirst ==
    /\ [][TakesV6Success
            => ( /\ mpc' = "returned"
                 /\ ret' = "v6"
                 /\ connState'["v6"] = "open"
                 /\ ~ipv4Started'
                 /\ sp'["v4"].pc = "idle" )]_vars
    /\ []((mpc = "returned" /\ ret = "v6" /\ ~ipv4Started)
            => ( /\ sp["v4"].pc = "idle"
                 /\ \A a \in attempts : a.by # "v4" ))

\* the IPv6 connection returned with the timer still running
C5_Witness ==
    /\ mpc = "returned"
    /\ ret = "v6"
    /\ v6Early
    /\ ~ipv4Started
    /\ timer = "stopped"

\* C6: when the select takes the failure of the IPv6 attempt and the IPv4
\* attempt has not been started, it starts the IPv4 attempt in that step,
\* whatever the timer; while DialParallel waits with a failure received the
\* IPv4 attempt has been started; the IPv4 attempt is started at most once.
C6_V4StartedOnceOnV6Failure ==
    /\ [][( /\ mpc = "select"
            /\ Len(resultChan) > 0
            /\ resultsReceived' = resultsReceived + 1
            /\ Head(resultChan).from = "v6"
            /\ Head(resultChan).isErr
            /\ ~ipv4Started )
            => ( /\ ipv4Started'
                 /\ v4Starts' = v4Starts + 1
                 /\ sp'["v4"].pc # "idle"
                 /\ mpc' = "select" )]_vars
    /\ []((mpc = "select" /\ resultsReceived >= 1) => ipv4Started)
    /\ [](v4Starts <= 1)

\* the IPv4 attempt started by the IPv6 failure, the timer stopped unexpired
C6_Witness ==
    /\ mpc = "select"
    /\ ipv4Started
    /\ v4Starts = 1
    /\ timer = "stopped"
    /\ sp["v6"].res = "err"

\* C7: the composite error is returned only after both branches reported a
\* failure, and DialParallel returns in every execution in which its
\* goroutines run and every connect attempt ends.
C7_CompositeErrorAndReturn ==
    /\ [](ret = "allfailed"
            => ( /\ resultsReceived = 2
                 /\ \A p \in Branches : sp[p].pc = "exit" /\ sp[p].res = "err" ))
    /\ <>(mpc = "returned")

\* both branches failed and the composite error was returned
C7_Witness ==
    /\ mpc = "returned"
    /\ ret = "allfailed"
    /\ Len(ipv4) > 0
    /\ Len(ipv6) > 0

\* C8: every candidate address is dialed with the sub-dialer of its own
\* family. DialSerial picks udpDialer4 / dialer4 in the addr.Is6() case too.
C8_FamilyMatchedSubDialer ==
    \A a \in attempts : a.dialer = a.addr

\* ------------------------------------------------------------------------
\* Claims about RawClient
\* ------------------------------------------------------------------------
OpenSocks == {k \in PoolSocks : socks[k] = "open"}
InPool(k) == \E i \in 1..Len(conns_) : conns_[i] = k

\* C9: at most maxConn sockets are open, connCount equals their number, and
\* a checkout with maxConn sockets open and none idle does not dial.
\* connCount is never incremented: newUdpConn dials without counting.
C9_PoolBoundedAndCounted ==
    /\ Cardinality(OpenSocks) <= maxConn
    /\ connCount = Cardinality(OpenSocks)
    /\ \A q \in Exchangers :
          (xs[q].pc = "get" /\ Len(conns_) = 0
           /\ Cardinality(OpenSocks) >= maxConn) => ~ENABLED DialConn(q)

\* C10: after a successful exchange the socket is back in the pool (idle, or
\* checked out again by another call); after an exchange that failed once it
\* had a socket, that socket is closed and not in the pool. The deferred
\* c.conns <- conn returns the socket on every path after the write.
C10_SocketAfterExchange ==
    \A q \in Exchangers :
        (xs[q].pc = "done" /\ xs[q].conn # 0)
            => IF xs[q].res = "ok"
                 THEN /\ socks[xs[q].conn] = "open"
                      /\ \/ InPool(xs[q].conn)
                         \/ \E o \in Exchangers \ {q} :
                               xs[o].conn = xs[q].conn /\ xs[o].pc # "done"
                 ELSE /\ socks[xs[q].conn] = "closed"
                      /\ ~InPool(xs[q].conn)

\* ------------------------------------------------------------------------
\* Claims about CachedResolver and SystemResolver
\* ------------------------------------------------------------------------

\* a step in which Lookup is called with a non-empty FQDN
CallsLookup == nlook' = nlook + 1 /\ lk'.err # "emptyfqdn"

\* C11: Lookup returns cached addresses only from an entry that has not
\* expired (and returns that entry's lists under the strategy), and an entry
\* load finds expired is deleted in that call and treated as a miss: the
\* call goes on to ask the upstream.
C11_ExpiredEntryNeverReturned ==
    [][CallsLookup =>
          /\ lk'.from = "cache"
                => ( /\ cache.present
                     /\ cache.expire >= clock
                     /\ <<lk'.A, lk'.AAAA>> =
                           FilterAddress(cache.A, cache.AAAA, lk'.strategy) )
          /\ (cache.present /\ cache.expire < clock)
                => ( /\ lk'.loaded = "expired"
                     /\ ~cache'.present
                     /\ lk'.pc = "wait"
                     /\ lk'.A = <<>> /\ lk'.AAAA = <<>> )]_vars

\* load found the entry expired, deleted it, and Lookup asks the upstream
C11_Witness ==
    /\ lk.pc = "wait"
    /\ lk.loaded = "expired"
    /\ ~cache.present
    /\ clock > 0

\* the query of type t was answered with addresses and a TTL >= 1 that has
\* not run out
PositiveAnswer(t) ==
    /\ qs[t].pc = "done"
    /\ qs[t].kind = "answers"
    /\ Len(qs[t].addrs) > 0
    /\ qs[t].expire > clock

\* C12: after a Lookup whose A and AAAA queries both got positive answers
\* with TTL >= 1, the cache entry holds both lists.
\* store builds the entry from the one response it is given and
\* StoreWithExpire replaces the entry of the other query.
C12_CacheHoldsUnion ==
    (lk.pc = "done" /\ lk.from = "upstream"
     /\ \A t \in QTypes : PositiveAnswer(t))
        => ( /\ cache.present
             /\ cache.A = qs["A"].addrs
             /\ cache.AAAA = qs["AAAA"].addrs )

\* C13: with strategy default, when one query is answered with addresses and
\* the other with NOERROR and an empty answer section, Lookup returns the
\* non-empty list and no error.
\* store rejects a response without answers and the group fails.
C13_OneFamilyReturned ==
    \A t \in QTypes : \A u \in QTypes \ {t} :
        (lk.pc = "done" /\ lk.from = "upstream" /\ lk.strategy = "default"
         /\ qs[t].pc = "done" /\ qs[t].kind = "answers" /\ Len(qs[t].addrs) > 0
         /\ qs[u].pc = "done" /\ qs[u].kind = "empty")
            => ( /\ lk.err = "none"
                 /\ Len(IF t = "A" THEN lk.A ELSE lk.AAAA) = Len(qs[t].addrs)
                 /\ Len(IF t = "A" THEN lk.AAAA ELSE lk.A) = 0 )

\* C14: a lookup that returns no error returns at least one address, for
\* SystemResolver and for CachedResolver.
\* SystemResolver.Lookup returns what the loop and the shuffle left, with a
\* nil error, without looking at the lengths.
C14_NoEmptyResult ==
    /\ (sysOut.pc = "done" /\ sysOut.err = "none")
          => Len(sysOut.A) + Len(sysOut.AAAA) > 0
    /\ (lk.pc = "done" /\ lk.err = "none")
          => Len(lk.A) + Len(lk.AAAA) > 0

\* seq holds exactly the members of want, each once
PermutationOf(seq, want) ==
    /\ Len(seq) = Len(want)
    /\ {seq[i] : i \in 1..Len(seq)} = {want[i] : i \in 1..Len(want)}

\* C15: the list SystemResolver.Lookup returns for a family is a permutation
\* of the host's addresses of that family that pass the strategy.
C15_ShuffleIsPermutation ==
    (sysOut.pc = "done" /\ sysOut.err = "none")
        => ( /\ PermutationOf(sysOut.A,
                    IF sysIn.strategy # "ipv6_only"
                      THEN HostAddresses(sysIn.answer, "4", 1) ELSE <<>>)
             /\ PermutationOf(sysOut.AAAA,
                    IF sysIn.strategy # "ipv4_only"
                      THEN HostAddresses(sysIn.answer, "6", 1) ELSE <<>>) )

\* ------------------------------------------------------------------------
\* Claims about startup
\* ------------------------------------------------------------------------
\* initDialer has returned
DialersBuilt == tpc \in {"initListener", "StartAll", "returned", "panic"}

\* initListener has returned
ListenersBuilt == tpc \in {"StartAll", "returned", "panic"}

\* two remotes of one name, or a remote with no name
BadRemoteNames(remote) ==
    \/ \E i \in DOMAIN remote : remote[i] = ""
    \/ \E i, j \in DOMAIN remote : i # j /\ remote[i] = remote[j]

\* C16: once initDialer has built the table without an error, the entry
\* under the name of each remote is the dialer of that remote, the only
\* remote of that name; an entry is never under another name than its
\* remote's; and with two remotes of one name, or a remote with an empty
\* name, initDialer fails and Start returns an error.
C16_OneDialerPerRemoteName ==
    /\ (DialersBuilt /\ "initDialer" \notin startErr)
          => \A i \in DOMAIN config.Remote :
                nameToDialer[config.Remote[i]] = i
    /\ \A n \in RemoteNames :
          nameToDialer[n] # NoDialer
             => ( /\ nameToDialer[n] \in DOMAIN config.Remote
                  /\ config.Remote[nameToDialer[n]] = n )
    /\ (DialersBuilt /\ BadRemoteNames(config.Remote))
          => "initDialer" \in startErr
    /\ (tpc = "returned" /\ BadRemoteNames(config.Remote))
          => startErr # {}

\* Start has returned nil with a table of two remotes
C16_Witness ==
    /\ tpc = "returned"
    /\ startErr = {}
    /\ Len(config.Remote) = 2
    /\ nameToDialer[config.Remote[2]] = 2

\* C17: the listener built for a bind carries the dialer stored under the
\* bind's remote name, which is the dialer of the remote of that name; when
\* initListener returns no error every bind has its listener; and a bind
\* that names a remote the table does not hold makes initListener fail and
\* Start return an error.
C17_ListenerUsesNamedDialer ==
    /\ \A k \in DOMAIN listeners :
          LET name == config.Binds[listeners[k].bind].Remote
          IN  /\ name # ""
              /\ listeners[k].dialer # NoDialer
              /\ listeners[k].dialer = nameToDialer[name]
              /\ config.Remote[listeners[k].dialer] = name
    /\ (ListenersBuilt /\ "initListener" \notin startErr)
          => /\ Len(listeners) = Len(config.Binds)
             /\ \A k \in DOMAIN listeners : listeners[k].bind = k
    /\ (ListenersBuilt /\ \E i \in DOMAIN config.Binds :
                              /\ config.Binds[i].Remote # ""
                              /\ nameToDialer[config.Binds[i].Remote]
                                    = NoDialer)
          => "initListener" \in startErr
    /\ (tpc = "returned" /\ "initListener" \in startErr) => startErr # {}

\* Start has returned nil with two listeners built on different remotes
C17_Witness ==
    /\ tpc = "returned"
    /\ startErr = {}
    /\ Len(listeners) = 2
    /\ listeners[1].dialer # listeners[2].dialer

\* the listener holds an open socket or a running accept or receive loop
Listening(l) ==
    l.tcpOpen > 0 \/ l.udpOpen > 0 \/ l.tcpLoops > 0 \/ l.udpLoops > 0

\* C18: when Start returns nil every listener has been started, and when
\* Start returns an error no listener is left listening: no open TCP or UDP
\* socket, no running loop.
\* StartAll returns at the first Listener.Start that fails and closes
\* nothing; Listener.Start returns the error of ListenUDP with its TCP
\* socket open and loopTcp running.
C18_StartRollsBack ==
    (tpc = "returned" /\ \A k \in DOMAIN listeners : listeners[k].calls <= 1)
        => /\ startErr = {}
                => \A k \in DOMAIN listeners : listeners[k].started = 1
           /\ startErr # {}
                => \A k \in DOMAIN listeners : ~Listening(listeners[k])

\* C20: a listener is started at most once: no second call of Start
\* returns nil, and none opens a further socket or spawns a further loop.
\* Listener.Start keeps no state and binds again on every call.
C20_StartAtMostOnce ==
    \A k \in DOMAIN listeners :
        /\ listeners[k].started <= 1
        /\ listeners[k].tcpOpen <= 1 /\ listeners[k].udpOpen <= 1
        /\ listeners[k].tcpLoops <= 1 /\ listeners[k].udpLoops <= 1

\* ------------------------------------------------------------------------
\* Claims about the loops of a Listener
\* ------------------------------------------------------------------------
\* C21: once the context of the listener is cancelled, by Close or by the
\* cancellation of the context it was derived from, every loop terminates,
\* and no loop logs an error its call returned after the cancellation.
\* A loop looks at the context only when its call returns an error: when the
\* root context is cancelled and Close is not called the sockets stay open
\* and the loops stay in Accept and Read.
C21_LoopsEndOnCancel ==
    /\ [](lis.ctxDone => <>(\A k \in Loops : lis.pc[k] = "exited"))
    /\ [](\A e \in lis.logged : ~e.afterCancel)

\* C22: no datagram of length zero is handed to the packet handler.
\* loopUdpIn has the n == 0 branch commented out; loopUdpInOOb has it.
C22_ZeroLengthNotHandled == 0 \notin lis.handled

\* C29: Listener.Start on a listener with UDP and without TCP never panics:
\* once it has opened the UDP socket and spawned the receive loop it has
\* returned nil.
\* The log line after go l.loopUdpIn() reads l.tcpListener.Addr(), and
\* l.tcpListener is nil when the listener has no TCP.
C29_UdpOnlyStartReturnsNil ==
    /\ tpc # "panic"
    /\ \A k \in DOMAIN listeners :
          (listeners[k].Network = {"udp"} /\ listeners[k].udpOpen > 0)
              => listeners[k].started > 0

\* ------------------------------------------------------------------------
\* Claims about DialSerial
\* ------------------------------------------------------------------------
\* C23: a connect of DialSerial that neither connects nor fails is given up
\* once the timeout configured for the remote has passed.
\* The connects go through dialer4 and udpDialer4, whose Timeout is zero;
\* NewDefault sets the timeout on defaultDialer, which DialSerial uses for
\* no valid address.
C23_ConnectBoundedByTimeout ==
    ser.pc = "dialing" => ser.elapsed <= DialTimeout

\* the addresses of addrs that match the version of network n, in order
RECURSIVE MatchingVersion(_, _, _)
MatchingVersion(n, addrs, i) ==
    IF i > Len(addrs) THEN <<>>
    ELSE (IF \/ n \in {"tcp", "udp"}
             \/ n \in {"tcp4", "udp4"} /\ addrs[i] = "4"
             \/ n \in {"tcp6", "udp6"} /\ addrs[i] = "6"
            THEN <<addrs[i]>> ELSE <<>>)
         \o MatchingVersion(n, addrs, i + 1)

Min(x, y) == IF x < y THEN x ELSE y

\* C24: exchange reads with the deadline min(context deadline, now + 5 s):
\* with a context deadline in the future the read is made and its deadline
\* is the earlier of the two; without a context deadline the read is made
\* with the deadline now + 5 s.
C24_ReadDeadlineIsMin ==
    (fn.op = "exchange" /\ fn.done) =>
        /\ (fn.arg.ctx.ok /\ fn.arg.ctx.dead > fn.arg.now) =>
              /\ fn.out.read
              /\ fn.out.deadline =
                    Min(fn.arg.ctx.dead,
                        fn.arg.now + ResolverDefaultReadTimeout)
        /\ ~fn.arg.ctx.ok =>
              /\ fn.out.read
              /\ fn.out.deadline = fn.arg.now + ResolverDefaultReadTimeout

\* C25: for every protocol of tcp, udp, ip and every version of 4, 6, dual,
\* ParseNetwork(n.String()) succeeds and returns n.
C25_NetworkRoundTrip ==
    (fn.op = "ParseNetwork" /\ fn.done) =>
        /\ fn.out.err = "nil"
        /\ fn.out.Protocol = fn.arg.Protocol
        /\ fn.out.Version = fn.arg.Version

\* C26: ParseProtocol returns each of tcp, udp, ip, tcp+udp for its own
\* name, tcp+udp for "udp+tcp", and the empty protocol for every other
\* string.
C26_ParseProtocolTable ==
    (fn.op = "ParseProtocol" /\ fn.done) =>
        fn.out = IF fn.arg \in {ProtocolTCP, ProtocolUDP, ProtocolIP,
                                ProtocolTCPUDP}
                   THEN fn.arg
                 ELSE IF fn.arg = "udp+tcp" THEN ProtocolTCPUDP
                 ELSE ""

\* ParseProtocol was given "udp+tcp" and returned tcp+udp
C26_Witness ==
    /\ fn.op = "ParseProtocol"
    /\ fn.done
    /\ fn.arg = "udp+tcp"
    /\ fn.out = ProtocolTCPUDP

\* C28: a bind of any source that sets no udp_ttl has udp_ttl = 60 s, and
\* one that sets no udp_buffer_size has udp_buffer_size = 65507, when the
\* listener and the flow tracker read them.
C28_BindDefaults ==
    (fn.op = "bind" /\ fn.done) =>
        /\ "udp_ttl" \notin DOMAIN fn.arg.opts =>
              fn.out.UDPKeepaliveTTL = 60
        /\ "udp_buffer_size" \notin DOMAIN fn.arg.opts =>
              fn.out.UDPBufferSize = 65507

\* ------------------------------------------------------------------------
\* Claims about the process
\* ------------------------------------------------------------------------
\* C27: a process that met a startup error (flags, a -l or -r URL, the
\* config file, an empty configuration, NewTraffics, Start) ends with an
\* exit code that is not 0: exit code 0 is the help text or a shutdown after
\* a startup without error, and main never goes on to NewTraffics with no
\* bind or no remote.
C27_StartupErrorExitsNonZero ==
    /\ proc.exit = 0 => proc.err = "none"
    /\ proc.err # "none" => (proc.pc = "exited" /\ proc.exit > 0)
    /\ proc.pc \in {"new", "start", "wait"} =>
          (proc.binds > 0 /\ proc.remotes > 0)

\* ------------------------------------------------------------------------
\* Claims about the datagrams through the flow map
\* ------------------------------------------------------------------------
\* C32: a handler whose dial fails, and a handler whose write fails, leave
\* the flow map and the upstream sockets as they are (no entry stored, no
\* loop started, the datagram written nowhere), and the receive loop of the
\* bind is back at its read.
C32_FailureLeavesFlowMap ==
    [][\A b \in Binds :
          (fwd.h[b].pc # "idle" /\ fwd'.h[b].res \in {"dialerr", "werr"})
              => ( /\ fwd'.track = fwd.track
                   /\ fwd'.socks = fwd.socks
                   /\ fwd'.h[b].pc = "idle" )]_vars

\* after a failed dial the bind has received its next datagram
C32_Witness ==
    \E b \in Binds :
        /\ fwd.rx[b] = 2
        /\ fwd.h[b].pc = "dial"
        /\ fwd.h[b].seq = 2
        /\ fwd.socks = <<>>

\* the seq numbers of the datagrams of bind b in a log
RECURSIVE SeqsOf(_, _)
SeqsOf(log, b) ==
    IF log = <<>> THEN <<>>
    ELSE IF Head(log).bind = b THEN <<Head(log).seq>> \o SeqsOf(Tail(log), b)
    ELSE SeqsOf(Tail(log), b)

Increasing(q) == \A i \in 1..Len(q), j \in 1..Len(q) : i < j => q[i] < q[j]

C36_DatagramStaysOnItsBind ==
    /\ [](\A s \in 1..Len(fwd.socks) :
            \A i \in 1..Len(fwd.socks[s].up) :
                fwd.socks[s].up[i].bind = fwd.socks[s].bind)
    /\ [][\A s \in 1..Len(fwd.socks) :
            (fwd.socks[s].pc = "exit" /\ fwd'.socks[s].pc = "done")
                => (fwd.track = s \/ fwd'.track = fwd.track)]_vars

\* ------------------------------------------------------------------------
\* Claims about the connections of loopTcp
\* ------------------------------------------------------------------------
\* C31: every accepted connection has its accepted socket closed in the
\* end; a handler that returned after a failed dial has closed the accepted
\* socket and has no upstream socket; one that returned after the copy has
\* closed both; and loopTcp stays in its loop until the listener is closed.
C31_AcceptedSocketClosed ==
    /\ \A i \in 1..MaxAccept :
         (Len(fwd.conns) >= i)
            ~> (Len(fwd.conns) >= i /\ fwd.conns[i].lo = "closed")
    /\ [](\A i \in 1..Len(fwd.conns) :
            LET c == fwd.conns[i] IN
              /\ (c.pc = "done" /\ c.err = "dial")
                    => (c.lo = "closed" /\ c.up = "none")
              /\ (c.pc = "done" /\ c.err # "dial")
                    => (c.lo = "closed" /\ c.up = "closed")
              /\ c.up = "open" => c.pc = "copy")
    /\ [](~fwd.ctxDone => fwd.loop = "accept")

\* one connection was closed after a failed dial, another after its copy,
\* and loopTcp is still accepting
C31_Witness ==
    /\ Len(fwd.conns) = 2
    /\ \E i \in 1..2 : fwd.conns[i].pc = "done" /\ fwd.conns[i].err = "dial"
    /\ \E i \in 1..2 : fwd.conns[i].pc = "done" /\ fwd.conns[i].moved > 0
    /\ fwd.loop = "accept"
    /\ ~fwd.ctxDone

\* ------------------------------------------------------------------------
\* Claims about the answers and the pool of RawClient
\* ------------------------------------------------------------------------
\* C33: the answer exchange returns has the id of the request, is not
\* truncated and has Rcode NOERROR, and it is the server's answer to this
\* request, never the late answer to an earlier one that was still on the
\* pooled socket. The question of the answer is not compared, so a late
\* answer with the same id is returned.
C33_AnswerIsForThisRequest ==
    (xs.pc \in {"ret", "done"} /\ xs.res = "ok")
        => /\ xs.ans.id = xs.req
           /\ ~xs.ans.tc
           /\ xs.ans.rcode = "NOERROR"
           /\ xs.ans.call = nexch

\* C37: every call of exchange returns in the end: none stays in newUdpConn
\* and none stays in the deferred send to c.conns. connCount is never
\* incremented, so more than maxConn sockets are dialed and the send of the
\* one after maxConn finds the channel full.
C37_EveryExchangeReturns ==
    /\ (xs.get > 0) ~> (xs.get = 0)
    /\ (xs.read > 0) ~> (xs.read = 0)
    /\ (xs.ret > 0) ~> (xs.ret = 0)

\* ------------------------------------------------------------------------
\* Claims about the wiring of binds to remotes at startup
\* ------------------------------------------------------------------------
\* C35: when initListener runs for a configuration of one remote and one
\* bind whose remote is that remote's name, given or taken from it in
\* NewTraffics because the bind named none, it does not return "no remote
\* specified", and if initDialer made the dialers the one listener is built
\* with that remote's dialer; with more than one bind or remote, a bind that
\* names no remote makes initListener return an error. A remote may have no
\* name: the bind then takes the empty name and initListener refuses it.
C35_SingleBindWired ==
    [][(tpc = "initListener" /\ tpc' = "StartAll")
         => LET r == initListener(config.Binds, 1, nameToDialer, listeners)
            IN  /\ (/\ Len(config.Remote) = 1
                    /\ Len(config.Binds) = 1
                    /\ config.Binds[1].Remote = config.Remote[1])
                      => /\ r.err # "no remote specified"
                         /\ "initDialer" \notin startErr
                              => /\ "initListener" \notin startErr'
                                 /\ Len(listeners') = 1
                                 /\ listeners'[1].dialer
                                      = nameToDialer[config.Remote[1]]
                /\ (/\ Len(config.Remote) > 1 \/ Len(config.Binds) > 1
                    /\ \E i \in 1..Len(config.Binds) :
                          config.Binds[i].Remote = "")
                      => "initListener" \in startErr']_vars

\* C38: when initDialer or initListener has returned an error, Start starts
\* no listener: Listener.Start is not called, no socket is bound and no loop
\* is spawned. The three calls are the arguments of errors.Join, which are
\* all evaluated: StartAll starts the listeners initListener had added
\* before it failed, and those whose remote initDialer had stored.
C38_FailedInitStartsNothing ==
    (startErr \cap {"initDialer", "initListener"} # {})
        => \A k \in DOMAIN listeners :
              listeners[k].calls = 0 /\ ~Listening(listeners[k])

\* ------------------------------------------------------------------------
\* Claims about the network of a bind and the dial order
\* ------------------------------------------------------------------------
\* C39: a listener whose Start returned nil has a TCP accept loop or a UDP
\* receive loop, whatever network its bind was configured with. A bind with
\* the scheme "ip", or with a JSON "network" that is none of tcp, udp and
\* tcp+udp, gets a protocol list without tcp and udp: Start opens nothing
\* and returns nil.
C39_StartedListenerListens ==
    (fn.op = "listen" /\ fn.done /\ fn.out.err = "none")
        => fn.out.l.tcpLoops > 0 \/ fn.out.l.udpLoops > 0

\* C40: a dial of a host with both A and AAAA addresses under prefer_ipv4
\* never has its IPv6 branch running before its IPv4 branch was started,
\* and under prefer_ipv6 or default the IPv4 branch is started only once the
\* IPv6 branch is. DialContext hands the two lists to DialParallel, which
\* does not know the strategy and always starts with IPv6.
C40_PreferredFamilyFirst ==
    (mpc \in {"select", "returned"} /\ Len(ipv4) > 0 /\ Len(ipv6) > 0)
        => /\ sysIn.strategy = "prefer_ipv4"
                => (sp["v6"].pc # "idle" => ipv4Started)
           /\ sysIn.strategy \in {"prefer_ipv6", "default"}
                => (ipv4Started => sp["v6"].pc # "idle")

====
